---- MODULE Spec2Model ----
(***************************************************************************)
(* Model of the monitoring engine of WebpageMonitorBackend: the check      *)
(* executor (pages/views.py:_perform_single_check and the run_checks       *)
(* command's _run_single_check), screenshot capture, visual diff,          *)
(* retention pruning (pages/screenshots.py) and the notification           *)
(* decisions (pages/notifications.py), for one monitored page.             *)
(***************************************************************************)
EXTENDS Integers, Sequences, FiniteSets, TLC

(***************************************************************************)
(* Bounds of the model.                                                    *)
(***************************************************************************)
\* number of executor invocations explored when alert streaks are studied
MaxAlertChecks == 5
\* number of executor invocations explored when screenshots are captured
MaxShotChecks == 3
\* largest retention limit (settings.MAX_SCREENSHOTS_PER_PAGE) explored
MaxLimit == 2
\* largest alert_threshold explored
MaxThreshold == 2
\* number of scheduler rounds explored
MaxRounds == 3
\* number of page-list requests explored while the scheduler runs
MaxRequests == 1
\* largest check_interval (minutes) explored
MaxInterval == 4
\* calls of the storage backend and of compute_diff explored on their own
MaxStoreOps == 3
\* requests for a stored artifact explored
MaxServes == 2
\* page-list requests explored next to the deletion of a page
MaxListRequests == 2
\* POST requests that register pages
MaxRegistrations == 3
\* settings requests explored one after the other
MaxSettingsRequests == 2
\* keys in the body of a settings request
MaxKeys == 2
\* checks and region changes of a page explored one after the other
MaxRegionSteps == 4
\* calls of the functions that fetch local copies, one after the other
MaxCopyOps == 3
MaxAttempts == 3
MaxStreakSteps == 4
MaxReadyCalls == 3

(***************************************************************************)
(* Program constants.                                                      *)
(***************************************************************************)
\* MonitoredPageCheck.message = CharField(max_length=255)
MessageMaxLength == 255

VARIABLES
    page,     \* the MonitoredPage row and its owner's email
    cfg,      \* deployment: retention limit, database, storage backend, mail transport,
              \* and the force_screenshot arguments its callers pass
    checks,   \* the MonitoredPageCheck rows of the page, indexed by primary key
    store,    \* the set of relative paths that hold an object in screenshot_storage
    now,      \* the clock read by auto_now_add
    names,    \* the number of names _unique_filename has handed out (time_ns)
    mails,    \* every notification handed to the mail transport
    last,     \* what the latest executor invocation did
    calls,    \* executor invocations (page-list requests, under the scheduler) left
    pages,    \* the scheduler's view of MonitoredPage: page id -> row, registered pages
    history,  \* page id -> the MonitoredPageCheck rows of that page
    temps,    \* the number of transient local copies of stored objects on disk,
              \* counted where the callers of local_path are called on their own
    ctl,      \* the run_checks loop: its position, round, round start time, --once
    tasks,    \* the coroutines handed to asyncio.gather in the current round
    threads   \* page id -> the request-side executor invocations in progress

vars == <<page, cfg, temps, checks, store, now, names, mails, last, calls,
          pages, history, ctl, tasks, threads>>

\* the state of the scheduler and of the registry of pages
schedVars == <<pages, history, ctl, tasks, threads>>

(***************************************************************************)
(* Values.                                                                 *)
(***************************************************************************)
\* Python None for a nullable column, and a present value
None == <<>>
Some(v) == <<v>>

\* the empty relative path ''
NoPath == <<>>

\* a relative path "<dir>/<hash><suffix>"
Path(dir, hash, suffix) == <<dir, hash, suffix>>

\* faulty variant: the directory is not the page's id
UniqueFilename_NoPageDir(page_id, n, suffix) == Path(0, n, suffix)

\* faulty variant: every page's files go to one directory
UniqueFilename_SharedDir(page_id, n, suffix) == Path(1, n, suffix)

\* screenshots._unique_filename(page_id, suffix): "<page_id>/<md5(time_ns)[:10]><suffix>"
UniqueFilename(page_id, n, suffix) == Path(page_id, n, suffix)

\* screenshots._thumb_rel: p.with_name(p.stem + "_thumb.jpg")
ThumbRel(source_rel) ==
    Path(source_rel[1], source_rel[2],
         (IF source_rel[3] = ".jpg" THEN "" ELSE "_crop") \o "_thumb.jpg")

\* screenshots._crop_to_region: p.with_name(p.stem + "_crop.jpg")
CropRel(full_rel) == Path(full_rel[1], full_rel[2], "_crop.jpg")

(***************************************************************************)
(* The storage backend (pages/storage.py), as the set of stored paths.     *)
(***************************************************************************)
StorageSave(st, rel_path) == st \cup {rel_path}

StorageExists(st, rel_path) == rel_path \in st

\* storage.delete: no-op on an empty path or a missing object
StorageDelete(st, rel_path) == IF rel_path = NoPath THEN st ELSE st \ {rel_path}

\* screenshots.delete_screenshot_file
DeleteScreenshotFile(st, rel_path) ==
    IF rel_path # NoPath THEN StorageDelete(st, rel_path) ELSE st

\* the three classes _make_storage chooses from
Backends == {"local", "s3", "seaweedfs"}

\* what the backend does with one request: it answers, or the request fails
\* (for the bucket backends a ClientError other than 404, or no connection;
\* the local backend reads the file system, whose answer is the file's presence)
BackendReplies(backend) == IF backend = "local" THEN {"ok"} ELSE {"ok", "error"}

\* faulty variant: no backend re-raises, a failed request counts as "not found"
ExistsOn_Swallows(backend, st, rel_path, reply) ==
    IF reply = "ok" THEN [value |-> rel_path \in st, raised |-> FALSE]
    ELSE [value |-> FALSE, raised |-> FALSE]

\* <backend>.exists(rel_path): the value returned and whether it raised
\*   LocalScreenshotStorage: self._abs(rel_path).is_file()
\*   S3ScreenshotStorage: False on 404 / NoSuchKey, any other error is re-raised
\*   SeaweedFSScreenshotStorage: False on every error
ExistsOn(backend, st, rel_path, reply) ==
    IF reply = "ok" THEN [value |-> rel_path \in st, raised |-> FALSE]
    ELSE IF backend = "s3" THEN [value |-> FALSE, raised |-> TRUE]
    ELSE [value |-> FALSE, raised |-> FALSE]

\* faulty variant: a failed delete_object leaves delete() as an exception
DeleteOn_Raises(backend, st, rel_path, reply) ==
    IF rel_path = NoPath THEN [store |-> st, raised |-> FALSE]
    ELSE IF reply = "error" THEN [store |-> st, raised |-> TRUE]
    ELSE [store |-> st \ {rel_path}, raised |-> FALSE]

\* <backend>.delete(rel_path): the store afterwards and whether it raised; an
\* empty path returns at once, a failed request is logged and the object stays
DeleteOn(backend, st, rel_path, reply) ==
    IF rel_path = NoPath THEN [store |-> st, raised |-> FALSE]
    ELSE IF reply = "error" THEN [store |-> st, raised |-> FALSE]
    ELSE [store |-> StorageDelete(st, rel_path), raised |-> FALSE]

(***************************************************************************)
(* The HTTP probe: what urllib.request.urlopen does for the page's URL.    *)
(***************************************************************************)
\* a URL that urllib accepts
GoodUrl == [scheme |-> "http", rest |-> "example.invalid/health"]

Pad64 == "0123456789abcdef0123456789abcdef0123456789abcdef0123456789abcdef"

\* a registered URL without a scheme
ShortBadUrl == [scheme |-> "", rest |-> "example"]

\* a registered URL without a scheme, longer than the message column
\* (monitor() stores webpageURL unvalidated; MonitoredPage.url holds 2048 chars)
LongBadUrl == [scheme |-> "", rest |-> Pad64 \o Pad64 \o Pad64 \o Pad64 \o "/health"]

UrlString(u) == IF u.scheme = "" THEN u.rest ELSE u.scheme \o "://" \o u.rest

\* the outcomes of Request(page.url) followed by urlopen(...)
ProbeOutcomes(url) ==
    IF url.scheme = ""
    THEN \* Request() raises ValueError("unknown url type: %r")
         {[kind |-> "Exception", code |-> 0,
           text |-> "unknown url type: '" \o UrlString(url) \o "'"]}
    ELSE {[kind |-> "response", code |-> 200, text |-> ""],
          [kind |-> "HTTPError", code |-> 500, text |-> ""],
          [kind |-> "URLError", code |-> 0, text |-> "timed out"]}

\* views._perform_single_check, the try block around urlopen
ViewsProbe(o) ==
    CASE o.kind = "response" ->
            LET is_up == 200 <= o.code /\ o.code < 400
            IN  [status_code |-> Some(o.code), is_up |-> is_up,
                 message |-> IF is_up THEN "OK" ELSE "Status " \o ToString(o.code)]
      [] o.kind = "HTTPError" ->
            [status_code |-> Some(o.code), is_up |-> FALSE,
             message |-> "HTTP " \o ToString(o.code)]
      [] OTHER ->
            [status_code |-> None, is_up |-> FALSE, message |-> "Error: " \o o.text]

\* Command._run_single_check.check_url
CheckUrl(o) ==
    CASE o.kind = "response" ->
            [status_code |-> Some(o.code), is_up |-> (200 <= o.code /\ o.code < 400),
             message |-> "Status " \o ToString(o.code)]
      [] o.kind = "HTTPError" ->
            [status_code |-> Some(o.code), is_up |-> FALSE,
             message |-> "HTTP " \o ToString(o.code)]
      [] OTHER ->
            [status_code |-> None, is_up |-> FALSE, message |-> "Error: " \o o.text]

(***************************************************************************)
(* Queries on the check rows.  A row's primary key is its index in checks. *)
(***************************************************************************)
RECURSIVE OrderByCheckedAtDesc(_, _)
\* page.checks.order_by('-checked_at') over the rows whose keys are in pks
OrderByCheckedAtDesc(rows, pks) ==
    IF pks = {} THEN <<>>
    ELSE LET newest == CHOOSE k \in pks :
                           \A j \in pks : rows[j].checked_at <= rows[k].checked_at
         IN  <<newest>> \o OrderByCheckedAtDesc(rows, pks \ {newest})

\* QuerySet.first()
First(seq) == IF seq = <<>> THEN None ELSE Some(seq[1])

RECURSIVE CountUntilUp(_, _, _)
\* the for loop of _consecutive_failures over the ordered is_up values
CountUntilUp(rows, ordered, count) ==
    IF ordered = <<>> THEN count
    ELSE IF rows[Head(ordered)].is_up THEN count
    ELSE CountUntilUp(rows, Tail(ordered), count + 1)

\* faulty variant: the loop never breaks at an up result
ConsecutiveFailures_NoBreak(rows) ==
    Cardinality({k \in DOMAIN rows : ~rows[k].is_up})

\* notifications._consecutive_failures
ConsecutiveFailures(rows) ==
    CountUntilUp(rows, OrderByCheckedAtDesc(rows, DOMAIN rows), 0)

(***************************************************************************)
(* Screenshot capture (pages/screenshots.py).                              *)
(***************************************************************************)
\* what the renderer and the store do during one capture
CaptureOutcomes == [ok : BOOLEAN, crop_ok : BOOLEAN]

\* the test of _crop_to_region for "the region is the whole page" (fractions in percent)
RegionIsFullPage(pg) ==
    /\ pg.region_width_pct >= 100
    /\ pg.region_height_pct >= 100
    /\ pg.region_left_pct <= 0
    /\ pg.region_top_pct <= 0

\* screenshots._crop_to_region: crop and stored paths, None as NoPath
CropToRegion(pg, st, full_rel, cap) ==
    IF RegionIsFullPage(pg) THEN [crop |-> NoPath, store |-> st]
    ELSE IF ~cap.crop_ok THEN [crop |-> NoPath, store |-> st]
    ELSE [crop |-> CropRel(full_rel), store |-> StorageSave(st, CropRel(full_rel))]

\* screenshots.create_thumbnail of a source that is in the store: the store afterwards
CreateThumbnail(st, source_rel) ==
    IF StorageExists(st, ThumbRel(source_rel)) THEN st
    ELSE StorageSave(st, ThumbRel(source_rel))

\* faulty variant: the path is returned although the rendering or the save failed
CaptureScreenshot_Dangling(pg, st, n, cap) ==
    LET rel_path == UniqueFilename(pg.id, n, ".jpg")
    IN  IF ~cap.ok THEN [full |-> rel_path, crop |-> NoPath, store |-> st]
        ELSE LET saved == StorageSave(st, rel_path)
                 c == CropToRegion(pg, saved, rel_path, cap)
             IN  [full |-> rel_path, crop |-> c.crop,
                  store |-> CreateThumbnail(c.store, rel_path)]

\* screenshots.capture_screenshot: (full_rel_path, crop_rel_path) and the store
CaptureScreenshot(pg, st, n, cap) ==
    LET rel_path == UniqueFilename(pg.id, n, ".jpg")
    IN  IF ~cap.ok THEN [full |-> NoPath, crop |-> NoPath, store |-> st]
        ELSE LET saved == StorageSave(st, rel_path)
                 c == CropToRegion(pg, saved, rel_path, cap)
             IN  [full |-> rel_path, crop |-> c.crop,
                  store |-> CreateThumbnail(c.store, rel_path)]

(***************************************************************************)
(* Visual diff (pages/screenshots.py).                                     *)
(***************************************************************************)
\* what happens inside compute_diff: the existence check raises (a backend
\* whose exists() re-raises), the processing fails, or the two perceptual
\* hashes are at the given Hamming distance
DiffOutcomes(backend) ==
    {[kind |-> "hashed", distance |-> 0], [kind |-> "hashed", distance |-> 32],
     [kind |-> "failed", distance |-> 0]}
    \cup (IF backend = "s3" THEN {[kind |-> "exists_raised", distance |-> 0]} ELSE {})

\* score = round(((hash_prev - hash_curr) / 64) * 100, 2)
DiffScore(distance) == (distance * 100) \div 64

\* faulty variant: the images are compared without asking the store for them
ComputeDiff_NoExistsCheck(prev_rel_path, curr_rel_path, st, page_id, n, d) ==
    LET nothing == [diff |-> NoPath, score |-> None, store |-> st, raised |-> FALSE]
    IN  IF prev_rel_path = NoPath \/ curr_rel_path = NoPath THEN nothing
        ELSE IF d.kind = "exists_raised" THEN [nothing EXCEPT !.raised = TRUE]
        ELSE IF d.kind = "failed" THEN nothing
        ELSE LET score == DiffScore(d.distance)
                 diff_rel == UniqueFilename(page_id, n, "_diff.jpg")
             IN  IF score > 0
                 THEN [diff |-> diff_rel, score |-> Some(score),
                       store |-> StorageSave(st, diff_rel), raised |-> FALSE]
                 ELSE [nothing EXCEPT !.score = Some(score)]

\* faulty variant: the diff image is rendered and saved whatever the score
ComputeDiff_AlwaysWrites(prev_rel_path, curr_rel_path, st, page_id, n, d) ==
    LET nothing == [diff |-> NoPath, score |-> None, store |-> st, raised |-> FALSE]
    IN  IF prev_rel_path = NoPath \/ curr_rel_path = NoPath THEN nothing
        ELSE IF d.kind = "exists_raised" THEN [nothing EXCEPT !.raised = TRUE]
        ELSE IF ~StorageExists(st, prev_rel_path) \/ ~StorageExists(st, curr_rel_path)
             THEN nothing
        ELSE IF d.kind = "failed" THEN nothing
        ELSE LET score == DiffScore(d.distance)
                 diff_rel == UniqueFilename(page_id, n, "_diff.jpg")
             IN  [diff |-> diff_rel, score |-> Some(score),
                  store |-> StorageSave(st, diff_rel), raised |-> FALSE]

\* screenshots.compute_diff: (diff_rel, score), the store, and whether it raised
ComputeDiff(prev_rel_path, curr_rel_path, st, page_id, n, d) ==
    LET nothing == [diff |-> NoPath, score |-> None, store |-> st, raised |-> FALSE]
    IN  IF prev_rel_path = NoPath \/ curr_rel_path = NoPath THEN nothing
        ELSE IF d.kind = "exists_raised" THEN [nothing EXCEPT !.raised = TRUE]
        ELSE IF ~StorageExists(st, prev_rel_path) \/ ~StorageExists(st, curr_rel_path)
             THEN nothing
        ELSE IF d.kind = "failed" THEN nothing
        ELSE LET score == DiffScore(d.distance)
                 diff_rel == UniqueFilename(page_id, n, "_diff.jpg")
             IN  IF score > 0
                 THEN [diff |-> diff_rel, score |-> Some(score),
                       store |-> StorageSave(st, diff_rel), raised |-> FALSE]
                 ELSE [nothing EXCEPT !.score = Some(score)]

\* a or b on two relative paths
OrPath(a, b) == IF a # NoPath THEN a ELSE b

\* faulty variant: the baseline is the most recent row that has a screenshot
CaptureAndDiff_LatestWithScreenshot(pg, rows, st, n, cap, d, clear_crop_on_error) ==
    LET c == CaptureScreenshot(pg, st, n, cap)
        diff_source == OrPath(c.crop, c.full)
        prev == First(OrderByCheckedAtDesc(
                          rows, {k \in DOMAIN rows : rows[k].screenshot_path # NoPath}))
        fresh == [screenshot_path |-> c.full, crop_path |-> c.crop, diff_path |-> NoPath,
                  diff_score |-> None, store |-> c.store]
    IN  IF c.full # NoPath /\ prev # None
        THEN LET prev_check == rows[prev[1]]
                 prev_diff_source == OrPath(prev_check.crop_path, prev_check.screenshot_path)
                 r == ComputeDiff(prev_diff_source, diff_source, c.store, pg.id, n + 1, d)
             IN  IF r.raised
                 THEN [fresh EXCEPT !.crop_path =
                                       IF clear_crop_on_error THEN NoPath ELSE c.crop]
                 ELSE IF r.score = Some(0)
                 THEN [screenshot_path |-> prev_check.screenshot_path,
                       crop_path |-> prev_check.crop_path,
                       diff_path |-> r.diff, diff_score |-> r.score,
                       store |-> DeleteScreenshotFile(
                                     DeleteScreenshotFile(r.store, c.full), c.crop)]
                 ELSE [fresh EXCEPT !.diff_path = r.diff, !.diff_score = r.score,
                                    !.store = r.store]
        ELSE fresh

\* the "Screenshot capture & visual diff" block of both executors once it is entered;
\* clear_crop_on_error: the except clause resets crop_rel (views) or passes (command)
CaptureAndDiff(pg, rows, st, n, cap, d, clear_crop_on_error) ==
    LET c == CaptureScreenshot(pg, st, n, cap)
        diff_source == OrPath(c.crop, c.full)
        prev == First(OrderByCheckedAtDesc(rows, DOMAIN rows))
        fresh == [screenshot_path |-> c.full, crop_path |-> c.crop, diff_path |-> NoPath,
                  diff_score |-> None, store |-> c.store]
    IN  IF c.full # NoPath /\ prev # None /\ rows[prev[1]].screenshot_path # NoPath
        THEN LET prev_check == rows[prev[1]]
                 prev_diff_source == OrPath(prev_check.crop_path, prev_check.screenshot_path)
                 r == ComputeDiff(prev_diff_source, diff_source, c.store, pg.id, n + 1, d)
             IN  IF r.raised
                 THEN [fresh EXCEPT !.crop_path =
                                       IF clear_crop_on_error THEN NoPath ELSE c.crop]
                 ELSE IF r.score = Some(0)
                 THEN [screenshot_path |-> prev_check.screenshot_path,
                       crop_path |-> prev_check.crop_path,
                       diff_path |-> r.diff, diff_score |-> r.score,
                       store |-> DeleteScreenshotFile(
                                     DeleteScreenshotFile(r.store, c.full), c.crop)]
                 ELSE [fresh EXCEPT !.diff_path = r.diff, !.diff_score = r.score,
                                    !.store = r.store]
        ELSE fresh

\* no screenshot taken
NoCapture(st) ==
    [screenshot_path |-> NoPath, crop_path |-> NoPath, diff_path |-> NoPath,
     diff_score |-> None, store |-> st]

\* faulty variant: a forced screenshot is taken whatever the probe found
ViewsScreenshotStage_ForcedWhenDown(pg, rows, st, n, force_screenshot, is_up, cap, d) ==
    IF (pg.screenshot_enabled /\ is_up) \/ force_screenshot
    THEN CaptureAndDiff(pg, rows, st, n, cap, d, TRUE)
    ELSE NoCapture(st)

\* views._perform_single_check, "Screenshot capture & visual diff"
ViewsScreenshotStage(pg, rows, st, n, force_screenshot, is_up, cap, d) ==
    IF (pg.screenshot_enabled \/ force_screenshot) /\ is_up
    THEN CaptureAndDiff(pg, rows, st, n, cap, d, TRUE)
    ELSE NoCapture(st)

\* Command._run_single_check, "Screenshot capture & visual diff"
CommandScreenshotStage(pg, rows, st, n, is_up, cap, d) ==
    IF pg.screenshot_enabled /\ is_up
    THEN CaptureAndDiff(pg, rows, st, n, cap, d, FALSE)
    ELSE NoCapture(st)

(***************************************************************************)
(* Retention pruning (pages/screenshots.py).                               *)
(***************************************************************************)
\* faulty variant: pruning also resets the diff score
PruneOne_ClearsScore(rows, st, pk) ==
    LET check == rows[pk]
        st1 == DeleteScreenshotFile(st, check.screenshot_path)
        st2 == DeleteScreenshotFile(st1, check.crop_path)
        st3 == DeleteScreenshotFile(st2, check.diff_path)
        st4 == IF check.screenshot_path # NoPath
               THEN DeleteScreenshotFile(st3, ThumbRel(check.screenshot_path))
               ELSE st3
    IN  [checks |-> [rows EXCEPT ![pk].screenshot_path = NoPath,
                                 ![pk].crop_path = NoPath,
                                 ![pk].diff_path = NoPath,
                                 ![pk].diff_score = None],
         store |-> st4]

\* the body of the for loop of cleanup_old_screenshots for one check
PruneOne(rows, st, pk) ==
    LET check == rows[pk]
        st1 == DeleteScreenshotFile(st, check.screenshot_path)
        st2 == DeleteScreenshotFile(st1, check.crop_path)
        st3 == DeleteScreenshotFile(st2, check.diff_path)
        st4 == IF check.screenshot_path # NoPath
               THEN DeleteScreenshotFile(st3, ThumbRel(check.screenshot_path))
               ELSE st3
    IN  [checks |-> [rows EXCEPT ![pk].screenshot_path = NoPath,
                                 ![pk].crop_path = NoPath,
                                 ![pk].diff_path = NoPath],
         store |-> st4]

RECURSIVE PruneEach(_, _, _)
\* for check in to_prune
PruneEach(rows, st, to_prune) ==
    IF to_prune = <<>> THEN [checks |-> rows, store |-> st]
    ELSE LET r == PruneOne(rows, st, Head(to_prune))
         IN  PruneEach(r.checks, r.store, Tail(to_prune))

\* faulty variant: the slice starts one row too late
ToPrune_OffByOne(rows, limit) ==
    LET checks_with_ss ==
            OrderByCheckedAtDesc(rows, {k \in DOMAIN rows : rows[k].screenshot_path # NoPath})
    IN  SubSeq(checks_with_ss, limit + 2, Len(checks_with_ss))

\* the checks_with_ss[limit:] slice
ToPrune(rows, limit) ==
    LET checks_with_ss ==
            OrderByCheckedAtDesc(rows, {k \in DOMAIN rows : rows[k].screenshot_path # NoPath})
    IN  SubSeq(checks_with_ss, limit + 1, Len(checks_with_ss))

\* screenshots.cleanup_old_screenshots
CleanupOldScreenshots(rows, st, limit) ==
    PruneEach(rows, st, ToPrune(rows, limit))

(***************************************************************************)
(* Notifications (pages/notifications.py).  A handler yields the mails it  *)
(* handed to the transport and whether it raised.                          *)
(***************************************************************************)
NoMail == [mails |-> {}, raised |-> FALSE]

Mail(kind, pk, transport_ok) == [kind |-> kind, check |-> pk, delivered |-> transport_ok]

\* faulty variant: the transport's exception leaves _send_plain
SendPlain_Raises(kind, pk, transport_ok) ==
    [mails |-> {Mail(kind, pk, transport_ok)}, raised |-> ~transport_ok]

\* notifications._send_plain: send_mail inside try/except Exception
SendPlain(kind, pk, transport_ok) ==
    [mails |-> {Mail(kind, pk, transport_ok)}, raised |-> FALSE]

\* notifications._send_html: msg.send inside try/except Exception
SendHtml(kind, pk, transport_ok) ==
    [mails |-> {Mail(kind, pk, transport_ok)}, raised |-> FALSE]

\* faulty variant: alerts on every failure at or past the threshold
HandlePost_AtLeastThreshold(pg, rows, latest_pk, transport_ok) ==
    IF ~pg.notifications_enabled THEN NoMail
    ELSE IF pg.user_email = "" THEN NoMail
    ELSE IF rows[latest_pk].is_up
    THEN LET prev == First(OrderByCheckedAtDesc(rows, DOMAIN rows \ {latest_pk}))
         IN  IF prev # None /\ ~rows[prev[1]].is_up
             THEN SendPlain("recovered", latest_pk, transport_ok)
             ELSE NoMail
    ELSE LET threshold == pg.alert_threshold
             failures == ConsecutiveFailures(rows)
         IN  IF threshold <= 0 THEN NoMail
             ELSE IF failures < threshold THEN NoMail
             ELSE SendPlain("down", latest_pk, transport_ok)

\* faulty variant: the previous check is looked up without excluding the latest
HandlePost_NoExclude(pg, rows, latest_pk, transport_ok) ==
    IF ~pg.notifications_enabled THEN NoMail
    ELSE IF pg.user_email = "" THEN NoMail
    ELSE IF rows[latest_pk].is_up
    THEN LET prev == First(OrderByCheckedAtDesc(rows, DOMAIN rows))
         IN  IF prev # None /\ ~rows[prev[1]].is_up
             THEN SendPlain("recovered", latest_pk, transport_ok)
             ELSE NoMail
    ELSE LET threshold == pg.alert_threshold
             failures == ConsecutiveFailures(rows)
         IN  IF threshold <= 0 THEN NoMail
             ELSE IF failures # threshold THEN NoMail
             ELSE SendPlain("down", latest_pk, transport_ok)

\* faulty variant: the recipient is not checked
HandlePost_NoRecipientCheck(pg, rows, latest_pk, transport_ok) ==
    IF ~pg.notifications_enabled THEN NoMail
    ELSE IF FALSE THEN NoMail
    ELSE IF rows[latest_pk].is_up
    THEN LET prev == First(OrderByCheckedAtDesc(rows, DOMAIN rows \ {latest_pk}))
         IN  IF prev # None /\ ~rows[prev[1]].is_up
             THEN SendPlain("recovered", latest_pk, transport_ok)
             ELSE NoMail
    ELSE LET threshold == pg.alert_threshold
             failures == ConsecutiveFailures(rows)
         IN  IF threshold <= 0 THEN NoMail
             ELSE IF failures # threshold THEN NoMail
             ELSE SendPlain("down", latest_pk, transport_ok)

\* notifications.handle_post_check_notification
HandlePostCheckNotification(pg, rows, latest_pk, transport_ok) ==
    IF ~pg.notifications_enabled THEN NoMail
    ELSE IF pg.user_email = "" THEN NoMail
    ELSE IF rows[latest_pk].is_up
    THEN LET prev == First(OrderByCheckedAtDesc(rows, DOMAIN rows \ {latest_pk}))
         IN  IF prev # None /\ ~rows[prev[1]].is_up
             THEN SendPlain("recovered", latest_pk, transport_ok)
             ELSE NoMail
    ELSE LET threshold == pg.alert_threshold
             failures == ConsecutiveFailures(rows)
         IN  IF threshold <= 0 THEN NoMail
             ELSE IF failures # threshold THEN NoMail
             ELSE SendPlain("down", latest_pk, transport_ok)

\* faulty variant: screenshot_enabled is not checked
HandleChange_NoScreenshotCheck(pg, rows, latest_pk, transport_ok) ==
    LET diff_score == rows[latest_pk].diff_score
    IN  IF ~pg.change_notifications_enabled THEN NoMail
        ELSE IF diff_score = None THEN NoMail
        ELSE IF diff_score[1] <= 0 THEN NoMail
        ELSE IF pg.user_email = "" THEN NoMail
        ELSE SendHtml("change", latest_pk, transport_ok)

\* notifications.handle_change_notification
HandleChangeNotification(pg, rows, latest_pk, transport_ok) ==
    LET diff_score == rows[latest_pk].diff_score
    IN  IF ~pg.change_notifications_enabled THEN NoMail
        ELSE IF ~pg.screenshot_enabled THEN NoMail
        ELSE IF diff_score = None THEN NoMail
        ELSE IF diff_score[1] <= 0 THEN NoMail
        ELSE IF pg.user_email = "" THEN NoMail
        ELSE SendHtml("change", latest_pk, transport_ok)

(***************************************************************************)
(* The check executors.                                                    *)
(***************************************************************************)
\* elapsed_ms as measured
ResponseTimes == {12}

\* MonitoredPageCheck.objects.create(...): the new row
NewRow(p, s, ms, at) ==
    [checked_at |-> at, status_code |-> p.status_code, response_time_ms |-> ms,
     is_up |-> p.is_up, message |-> p.message,
     screenshot_path |-> s.screenshot_path, crop_path |-> s.crop_path,
     diff_path |-> s.diff_path, diff_score |-> s.diff_score]

\* the INSERT is refused when a database that enforces varchar(n) gets a longer message
CreateRaises(row, deployment) ==
    deployment.db_enforces_length /\ Len(row.message) > MessageMaxLength

\* the snapshot of an invocation that created no row
NoSnapshot == [checks |-> <<>>, store |-> {}]

\* the capture outcomes that make a difference to an invocation
Captures(pg, capturing) ==
    IF ~capturing THEN {[ok |-> FALSE, crop_ok |-> FALSE]}
    ELSE {cap \in CaptureOutcomes :
              /\ ~cap.ok => ~cap.crop_ok
              /\ RegionIsFullPage(pg) => ~cap.crop_ok}

\* the diff outcomes that make a difference to an invocation
Diffs(rows, capturing, cap, backend) ==
    LET prev == First(OrderByCheckedAtDesc(rows, DOMAIN rows))
    IN  IF /\ capturing /\ cap.ok /\ prev # None
           /\ rows[prev[1]].screenshot_path # NoPath
        THEN DiffOutcomes(backend)
        ELSE {[kind |-> "failed", distance |-> 0]}

\* what the mail transport does with a mail, if one is sent
Transport(sending, deployment) ==
    IF sending /\ deployment.transport_fails THEN BOOLEAN ELSE {TRUE}

\* the row is stored; retention pass
AfterCreate(rows1, st, limit) ==
    IF rows1[Len(rows1)].screenshot_path # NoPath
    THEN CleanupOldScreenshots(rows1, st, limit)
    ELSE [checks |-> rows1, store |-> st]

\* the steps after the INSERT in which a database error may strike: the retention
\* pass queries the rows, the uptime handler loads page.user and the rows once
\* notifications are enabled, the change handler loads page.user once its gates
\* pass (the uptime handler has it cached when notifications are enabled)
StepFaults(pg, rows1, deployment) ==
    LET latest == rows1[Len(rows1)]
    IN  {"none"} \cup
        (IF ~deployment.db_faults THEN {}
         ELSE (IF latest.screenshot_path # NoPath THEN {"cleanup"} ELSE {})
              \cup (IF pg.notifications_enabled THEN {"uptime"} ELSE {})
              \cup (IF /\ ~pg.notifications_enabled
                       /\ pg.change_notifications_enabled /\ pg.screenshot_enabled
                       /\ latest.diff_score # None /\ latest.diff_score[1] > 0
                    THEN {"change"} ELSE {}))

\* a step that raised before doing anything
StepRaised == [mails |-> {}, raised |-> TRUE]

\* the steps an executor enters after the INSERT when none of them stops it
AllSteps(rows1) ==
    (IF rows1[Len(rows1)].screenshot_path # NoPath THEN <<"cleanup">> ELSE <<>>)
    \o <<"uptime", "change">>

\* views._perform_single_check after the INSERT: each step in try/except Exception: pass
ViewsAfterCreate(pg, rows1, st, limit, fault, plain_ok, html_ok) ==
    LET latest == Len(rows1)
        c == IF fault = "cleanup" THEN [checks |-> rows1, store |-> st]
             ELSE AfterCreate(rows1, st, limit)
        n1 == IF fault = "uptime" THEN StepRaised
              ELSE HandlePostCheckNotification(pg, c.checks, latest, plain_ok)
        n2 == IF fault = "change" THEN StepRaised
              ELSE HandleChangeNotification(pg, c.checks, latest, html_ok)
    IN  [checks |-> c.checks, store |-> c.store, mails |-> n1.mails \cup n2.mails,
         raised |-> FALSE, handlers_raised |-> n1.raised \/ n2.raised,
         steps |-> AllSteps(rows1)]

\* Command._run_single_check after the INSERT: the steps are awaited one after the
\* other without a try, so an exception of one skips the rest and leaves the coroutine
CommandAfterCreate(pg, rows1, st, limit, fault, plain_ok, html_ok) ==
    LET latest == Len(rows1)
        pruning == rows1[latest].screenshot_path # NoPath
        c == IF fault = "cleanup" THEN [checks |-> rows1, store |-> st]
             ELSE AfterCreate(rows1, st, limit)
        n1 == IF fault = "cleanup" THEN NoMail
              ELSE IF fault = "uptime" THEN StepRaised
              ELSE HandlePostCheckNotification(pg, c.checks, latest, plain_ok)
        n2 == IF fault = "cleanup" \/ n1.raised THEN NoMail
              ELSE IF fault = "change" THEN StepRaised
              ELSE HandleChangeNotification(pg, c.checks, latest, html_ok)
    IN  [checks |-> c.checks, store |-> c.store, mails |-> n1.mails \cup n2.mails,
         raised |-> fault = "cleanup" \/ n1.raised \/ n2.raised,
         handlers_raised |-> n1.raised \/ n2.raised,
         steps |-> IF fault = "cleanup" THEN <<"cleanup">>
                   ELSE IF n1.raised
                   THEN (IF pruning THEN <<"cleanup">> ELSE <<>>) \o <<"uptime">>
                   ELSE AllSteps(rows1)]

\* what last records of an invocation: the executor, whether it raised to its caller,
\* the key of the row it created (0: none), whether the retention pass ran, the rows
\* and the store as they were right after the INSERT, whether a handler raised, and
\* the steps it entered after the INSERT
Invocation(executor, raised, rows1, st, handlers_raised, steps) ==
    IF rows1 = <<>>
    THEN [executor |-> executor, raised |-> raised, created |-> 0, cleanup |-> FALSE,
          before |-> NoSnapshot, handlers_raised |-> FALSE, steps |-> <<>>]
    ELSE [executor |-> executor, raised |-> raised, created |-> Len(rows1),
          cleanup |-> rows1[Len(rows1)].screenshot_path # NoPath /\ Head(steps) = "cleanup",
          before |-> [checks |-> rows1, store |-> st],
          handlers_raised |-> handlers_raised, steps |-> steps]

\* views._perform_single_check(page, force_screenshot=force)
PerformSingleCheck ==
    /\ calls > 0
    /\ \E force \in cfg.force_screenshot, o \in ProbeOutcomes(page.url),
          ms \in ResponseTimes :
        LET p == ViewsProbe(o)
            capturing == (page.screenshot_enabled \/ force) /\ p.is_up
        IN  \E cap \in Captures(page, capturing) :
            \E d \in Diffs(checks, capturing, cap, cfg.backend) :
            LET s == ViewsScreenshotStage(page, checks, store, names, force, p.is_up, cap, d)
                row == NewRow(p, s, ms, now)
                rows1 == Append(checks, row)
                latest == Len(rows1)
                \* what the steps do when nothing fails, to see which mails are sent
                dry == ViewsAfterCreate(page, rows1, s.store, cfg.limit, "none", TRUE, TRUE)
            IN  /\ names' = IF capturing THEN names + 2 ELSE names
                /\ IF CreateRaises(row, cfg)
                   THEN /\ checks' = checks
                        /\ store' = s.store
                        /\ mails' = mails
                        /\ now' = now
                        /\ last' = Invocation("views", TRUE, <<>>, s.store, FALSE, <<>>)
                   ELSE \E fault \in StepFaults(page, rows1, cfg),
                           plain_ok \in Transport(
                               \E m \in dry.mails : m.kind \in {"down", "recovered"}, cfg),
                           html_ok \in Transport(
                               \E m \in dry.mails : m.kind = "change", cfg) :
                        LET a == ViewsAfterCreate(page, rows1, s.store, cfg.limit,
                                                  fault, plain_ok, html_ok)
                        IN  /\ checks' = a.checks
                            /\ store' = a.store
                            /\ mails' = mails \cup a.mails
                            /\ now' = now + 1
                            /\ last' = Invocation("views", a.raised, rows1, s.store,
                                                  a.handlers_raised, a.steps)
    /\ calls' = calls - 1
    /\ UNCHANGED <<page, cfg, temps>>
    /\ UNCHANGED schedVars

\* Command._run_single_check(page, timeout)
RunSingleCheck ==
    /\ calls > 0
    /\ \E o \in ProbeOutcomes(page.url), ms \in ResponseTimes :
        LET p == CheckUrl(o)
            capturing == page.screenshot_enabled /\ p.is_up
        IN  \E cap \in Captures(page, capturing) :
            \E d \in Diffs(checks, capturing, cap, cfg.backend) :
            LET s == CommandScreenshotStage(page, checks, store, names, p.is_up, cap, d)
                row == NewRow(p, s, ms, now)
                rows1 == Append(checks, row)
                latest == Len(rows1)
                dry == CommandAfterCreate(page, rows1, s.store, cfg.limit, "none", TRUE, TRUE)
            IN  /\ names' = IF capturing THEN names + 2 ELSE names
                /\ IF CreateRaises(row, cfg)
                   THEN /\ checks' = checks
                        /\ store' = s.store
                        /\ mails' = mails
                        /\ now' = now
                        /\ last' = Invocation("command", TRUE, <<>>, s.store, FALSE, <<>>)
                   ELSE \E fault \in StepFaults(page, rows1, cfg),
                           plain_ok \in Transport(
                               \E m \in dry.mails : m.kind \in {"down", "recovered"}, cfg),
                           html_ok \in Transport(
                               \E m \in dry.mails : m.kind = "change", cfg) :
                        LET a == CommandAfterCreate(page, rows1, s.store, cfg.limit,
                                                    fault, plain_ok, html_ok)
                        IN  /\ checks' = a.checks
                            /\ store' = a.store
                            /\ mails' = mails \cup a.mails
                            /\ now' = now + 1
                            /\ last' = Invocation("command", a.raised, rows1, s.store,
                                                  a.handlers_raised, a.steps)
    /\ calls' = calls - 1
    /\ UNCHANGED <<page, cfg, temps>>
    /\ UNCHANGED schedVars

Next == PerformSingleCheck \/ RunSingleCheck

(***************************************************************************)
(* Initial states: a registered page with no checks yet.                   *)
(***************************************************************************)
NoInvocation == Invocation("none", FALSE, <<>>, {}, FALSE, <<>>)

WholePage == [l |-> 0, t |-> 0, w |-> 100, h |-> 100]
TopLeftQuarter == [l |-> 0, t |-> 0, w |-> 50, h |-> 50]

\* a MonitoredPage row with the given settings
PageRow(url, email, ne, thr, se, ce, region) ==
    [id |-> 1, url |-> url, user_email |-> email,
     notifications_enabled |-> ne, alert_threshold |-> thr,
     screenshot_enabled |-> se, change_notifications_enabled |-> ce,
     region_left_pct |-> region.l, region_top_pct |-> region.t,
     region_width_pct |-> region.w, region_height_pct |-> region.h]

Emails == {"", "u1@example.com"}

\* the run_checks command is not running and the state above is the single page's
NoScheduler ==
    /\ pages = <<>>
    /\ history = <<>>
    /\ ctl = [pc |-> "off", round |-> 0, now |-> 0, once |-> FALSE]
    /\ tasks = <<>>
    /\ threads = <<>>

EmptyHistory ==
    /\ NoScheduler
    /\ checks = <<>>
    /\ store = {}
    /\ now = 1
    /\ names = 1
    /\ mails = {}
    /\ last = NoInvocation

\* a deployment
Deployment(limit, enforcing, backend, transport_fails, force_screenshot, db_faults) ==
    [limit |-> limit, db_enforces_length |-> enforcing, backend |-> backend,
     transport_fails |-> transport_fails, force_screenshot |-> force_screenshot,
     db_faults |-> db_faults]

\* uptime alerts: every alert setting, no screenshots, a mail transport that works
InitAlert ==
    /\ page \in {PageRow(GoodUrl, em, ne, thr, FALSE, FALSE, WholePage) :
                     em \in Emails, ne \in BOOLEAN, thr \in 0..MaxThreshold}
    /\ temps = 0
    /\ cfg = Deployment(MaxLimit, FALSE, "local", FALSE, {FALSE}, FALSE)
    /\ calls = MaxAlertChecks
    /\ EmptyHistory

\* the three notifications with a mail transport that may fail
InitMail ==
    /\ page \in {PageRow(GoodUrl, "u1@example.com", ne, 1, se, ce, WholePage) :
                     ne \in BOOLEAN, se \in BOOLEAN, ce \in BOOLEAN}
    /\ temps = 0
    /\ cfg = Deployment(MaxLimit, FALSE, "local", TRUE, BOOLEAN, FALSE)
    /\ calls = MaxShotChecks
    /\ EmptyHistory

\* screenshots, diffs and retention on a page that captures, and the probe of a bad URL
Init ==
    /\ \/ /\ page \in {PageRow(GoodUrl, "", FALSE, 1, TRUE, FALSE, region) :
                           region \in {WholePage, TopLeftQuarter}}
          /\ cfg \in {Deployment(limit, FALSE, "s3", FALSE, {FALSE}, FALSE) : limit \in 1..MaxLimit}
       \/ /\ page \in {PageRow(url, "", FALSE, 1, TRUE, FALSE, WholePage) :
                           url \in {ShortBadUrl, LongBadUrl}}
          /\ cfg \in {Deployment(MaxLimit, enforcing, "s3", FALSE, {FALSE}, FALSE) :
                          enforcing \in BOOLEAN}
    /\ temps = 0
    /\ calls = MaxShotChecks
    /\ EmptyHistory

\* a page with every notification on, checked while the database may fail in a step
\* after the INSERT
InitFault ==
    /\ page \in {PageRow(GoodUrl, "u1@example.com", ne, 1, TRUE, TRUE, WholePage) :
                     ne \in BOOLEAN}
    /\ temps = 0
    /\ cfg = Deployment(MaxLimit, FALSE, "local", FALSE, {FALSE}, TRUE)
    /\ calls = MaxShotChecks
    /\ EmptyHistory

SpecAlert == InitAlert /\ [][Next]_vars

SpecMail == InitMail /\ [][Next]_vars

Spec == Init /\ [][Next]_vars

SpecFault == InitFault /\ [][Next]_vars

(***************************************************************************)
(* The scheduler (pages/management/commands/run_checks.py), the registry   *)
(* of pages and the request-side triggers of the executor (pages/views.py).*)
(* Time is counted in minutes; page ids are the first segment of the paths *)
(* in store.                                                               *)
(***************************************************************************)
\* the ids of the pages that are or get registered
PageIds == {1, 2}

\* --interval 60, as apps.PagesConfig starts the command: one minute between rounds
ScanInterval == 1

\* a MonitoredPage row as the scheduler loads it
SchedPage(id, url, interval, se) ==
    [check_interval |-> interval]
    @@ [PageRow(url, "", FALSE, 1, se, FALSE, WholePage) EXCEPT !.id = id]

\* MonitoredPage.check_interval = IntegerField(default=5)
DefaultCheckInterval == 5

\* the rows a registration can create for the given id: the URL as posted, every
\* setting at its default
Registrations(id) ==
    {SchedPage(id, url, DefaultCheckInterval, FALSE) : url \in {GoodUrl, LongBadUrl}}

\* a registered page whose owner has set its check interval
Registered(id) ==
    {[pg EXCEPT !.check_interval = interval] :
         pg \in Registrations(id), interval \in {1, MaxInterval}}

RECURSIVE PagesList(_, _)
\* list(MonitoredPage.objects.all()): Meta.ordering is -is_pinned, -created_at
PagesList(pgs, ids) ==
    IF ids = {} THEN <<>>
    ELSE LET newest == CHOOSE k \in ids : \A j \in ids : j <= k
         IN  <<pgs[newest]>> \o PagesList(pgs, ids \ {newest})

\* faulty variant: a page is due only after more than its interval
ShouldCheck_Late(pg, prows, at) ==
    LET last_check == First(OrderByCheckedAtDesc(prows, DOMAIN prows))
    IN  IF last_check = None THEN TRUE
        ELSE at - prows[last_check[1]].checked_at > pg.check_interval

\* should_check of _run_checks for one page
ShouldCheck(pg, prows, at) ==
    LET last_check == First(OrderByCheckedAtDesc(prows, DOMAIN prows))
    IN  IF last_check = None THEN TRUE
        ELSE at - prows[last_check[1]].checked_at >= pg.check_interval

\* the locals of _run_single_check when the coroutine is created
NewTask(pg, round) ==
    [page |-> pg, round |-> round, pc |-> "probe",
     p |-> [status_code |-> None, is_up |-> FALSE, message |-> ""],
     s |-> [screenshot_path |-> NoPath, crop_path |-> NoPath, diff_path |-> NoPath,
            diff_score |-> None]]

RECURSIVE DueTasks(_, _, _, _)
\* the for loop of _run_checks: tasks.append(self._run_single_check(page, timeout))
DueTasks(list, all_rows, at, round) ==
    IF list = <<>> THEN <<>>
    ELSE LET pg == Head(list)
         IN  (IF ShouldCheck(pg, all_rows[pg.id], at) THEN <<NewTask(pg, round)>> ELSE <<>>)
             \o DueTasks(Tail(list), all_rows, at, round)

\* a coroutine that has returned, raised or been cancelled
Settled(t) == t.pc \in {"done", "raised", "cancelled"}

\* faulty variant: gather returns with the first result
GatherReturned_First(ts) == ts = <<>> \/ \E i \in DOMAIN ts : ts[i].pc = "done"

\* await asyncio.gather(*tasks) returns: every coroutine has returned
GatherReturned(ts) == \A i \in DOMAIN ts : ts[i].pc = "done"

\* await asyncio.gather(*tasks) raises: the first exception of a coroutine
GatherRaised(ts) == \E i \in DOMAIN ts : ts[i].pc = "raised"

\* the paths a check has in hand
StagePaths(s) ==
    [screenshot_path |-> s.screenshot_path, crop_path |-> s.crop_path,
     diff_path |-> s.diff_path, diff_score |-> s.diff_score]

\* the environment explored under the scheduler: a site answers 200 or does not
\* answer, the browser works and the two images are compared
RoundProbes(url) == {o \in ProbeOutcomes(url) : o.kind # "HTTPError"}

RoundCaptures(pg, capturing) == {cap \in Captures(pg, capturing) : cap.ok = capturing}

RoundDiffs(prows, capturing, cap, backend) ==
    {d \in Diffs(prows, capturing, cap, backend) :
         d.kind = "hashed" \/ Diffs(prows, capturing, cap, backend) = {d}}

\* while True: asyncio.run(self._run_checks(timeout)), up to the gather
RunChecks ==
    /\ ctl.pc = "loop"
    /\ ctl.round < MaxRounds
    /\ tasks' = DueTasks(PagesList(pages, DOMAIN pages), history, now, ctl.round + 1)
    /\ ctl' = [ctl EXCEPT !.pc = "gather", !.round = ctl.round + 1, !.now = now]
    /\ UNCHANGED <<page, cfg, temps, checks, store, now, names, mails, last, calls,
                   pages, history, threads>>

\* _run_single_check: status_code, is_up, message = await asyncio.to_thread(check_url)
TaskProbe(i) ==
    /\ ctl.pc = "gather"
    /\ tasks[i].pc = "probe"
    /\ \E o \in RoundProbes(tasks[i].page.url) :
           tasks' = [tasks EXCEPT ![i].p = CheckUrl(o), ![i].pc = "capture"]
    /\ UNCHANGED <<page, cfg, temps, checks, store, now, names, mails, last, calls,
                   pages, history, ctl, threads>>

\* _run_single_check: the "Screenshot capture & visual diff" block
TaskCapture(i) ==
    /\ ctl.pc = "gather"
    /\ tasks[i].pc = "capture"
    /\ LET t == tasks[i]
           prows == history[t.page.id]
           capturing == t.page.screenshot_enabled /\ t.p.is_up
       IN  \E cap \in RoundCaptures(t.page, capturing) :
           \E d \in RoundDiffs(prows, capturing, cap, cfg.backend) :
           LET s == CommandScreenshotStage(t.page, prows, store, names, t.p.is_up, cap, d)
           IN  /\ tasks' = [tasks EXCEPT ![i].s = StagePaths(s), ![i].pc = "create"]
               /\ store' = s.store
               /\ names' = IF capturing THEN names + 2 ELSE names
    /\ UNCHANGED <<page, cfg, temps, checks, now, mails, last, calls,
                   pages, history, ctl, threads>>

\* _run_single_check: MonitoredPageCheck.objects.create and the steps after it
TaskCreate(i) ==
    /\ ctl.pc = "gather"
    /\ tasks[i].pc = "create"
    /\ \E ms \in ResponseTimes :
       LET t == tasks[i]
           row == NewRow(t.p, t.s, ms, now)
           rows1 == Append(history[t.page.id], row)
           a == CommandAfterCreate(t.page, rows1, store, cfg.limit, "none", TRUE, TRUE)
       IN  IF CreateRaises(row, cfg)
           THEN /\ tasks' = [tasks EXCEPT ![i].pc = "raised"]
                /\ UNCHANGED <<history, store, mails, now>>
           ELSE /\ tasks' = [tasks EXCEPT ![i].pc = "done"]
                /\ history' = [history EXCEPT ![t.page.id] = a.checks]
                /\ store' = a.store
                /\ mails' = mails \cup a.mails
                /\ now' = now + 1
    /\ UNCHANGED <<page, cfg, temps, checks, names, last, calls, pages, ctl, threads>>

\* gather returns and _run_checks with it
GatherReturns ==
    /\ ctl.pc = "gather"
    /\ GatherReturned(tasks)
    /\ ctl' = [ctl EXCEPT !.pc = "after"]
    /\ UNCHANGED <<page, cfg, temps, checks, store, now, names, mails, last, calls,
                   pages, history, tasks, threads>>

\* gather re-raises the exception of a coroutine: it leaves _run_checks, and
\* asyncio.run cancels the coroutines that are still pending
GatherRaises ==
    /\ ctl.pc = "gather"
    /\ GatherRaised(tasks)
    /\ ctl' = [ctl EXCEPT !.pc = "cancelling"]
    /\ UNCHANGED <<page, cfg, temps, checks, store, now, names, mails, last, calls,
                   pages, history, tasks, threads>>

\* a pending coroutine gets CancelledError at its await
TaskCancelled(i) ==
    /\ ctl.pc = "cancelling"
    /\ ~Settled(tasks[i])
    /\ tasks' = [tasks EXCEPT ![i].pc = "cancelled"]
    /\ UNCHANGED <<page, cfg, temps, checks, store, now, names, mails, last, calls,
                   pages, history, ctl, threads>>

\* asyncio.run raises the exception into handle(), which has no try: the loop ends
LoopCrashes ==
    /\ ctl.pc = "cancelling"
    /\ \A i \in DOMAIN tasks : Settled(tasks[i])
    /\ ctl' = [ctl EXCEPT !.pc = "crashed"]
    /\ UNCHANGED <<page, cfg, temps, checks, store, now, names, mails, last, calls,
                   pages, history, tasks, threads>>

\* if run_once: break; else time.sleep(interval) begins
AfterRound ==
    /\ ctl.pc = "after"
    /\ ctl' = [ctl EXCEPT !.pc = IF ctl.once THEN "exited" ELSE "sleeping"]
    /\ UNCHANGED <<page, cfg, temps, checks, store, now, names, mails, last, calls,
                   pages, history, tasks, threads>>

\* time.sleep(interval) returns
Sleep ==
    /\ ctl.pc = "sleeping"
    /\ now' = now + ScanInterval
    /\ ctl' = [ctl EXCEPT !.pc = "loop"]
    /\ UNCHANGED <<page, cfg, temps, checks, store, names, mails, last, calls,
                   pages, history, tasks, threads>>

\* POST monitor: get_or_create, then _perform_single_check(page, force_screenshot=True)
\* is entered in the request
Register(id) ==
    /\ id \notin DOMAIN pages
    /\ \E pg \in Registrations(id) : pages' = pages @@ (id :> pg)
    /\ threads' = [threads EXCEPT ![id].register = 1]
    /\ UNCHANGED <<page, cfg, temps, checks, store, now, names, mails, last, calls,
                   history, ctl, tasks>>

\* the pages for which GET monitor starts a _bg_capture thread
NeedsCapture(id) ==
    LET prows == history[id]
        last_check_any == First(OrderByCheckedAtDesc(prows, DOMAIN prows))
    IN  /\ \A k \in DOMAIN prows : prows[k].screenshot_path = NoPath
        /\ IF last_check_any = None THEN TRUE ELSE prows[last_check_any[1]].is_up

\* GET monitor: threading.Thread(target=_bg_capture).start() for each such page
PageListRequest ==
    /\ calls > 0
    /\ \E id \in DOMAIN pages : NeedsCapture(id)
    /\ threads' = [id \in PageIds |->
                      IF id \in DOMAIN pages /\ NeedsCapture(id)
                      THEN [threads[id] EXCEPT !.page_list = @ + 1]
                      ELSE threads[id]]
    /\ calls' = calls - 1
    /\ UNCHANGED <<page, cfg, temps, checks, store, now, names, mails, last,
                   pages, history, ctl, tasks>>

\* _perform_single_check(page, force_screenshot=True) of a request or of a
\* _bg_capture thread runs to its end
ViewCheck(id, origin) ==
    /\ threads[id][origin] > 0
    /\ threads' = [threads EXCEPT ![id][origin] = @ - 1]
    /\ \E o \in RoundProbes(pages[id].url), ms \in ResponseTimes :
        LET pg == pages[id]
            p == ViewsProbe(o)
            capturing == p.is_up
        IN  \E cap \in RoundCaptures(pg, capturing) :
            \E d \in RoundDiffs(history[id], capturing, cap, cfg.backend) :
            LET s == ViewsScreenshotStage(pg, history[id], store, names, TRUE, p.is_up, cap, d)
                row == NewRow(p, s, ms, now)
                rows1 == Append(history[id], row)
                a == ViewsAfterCreate(pg, rows1, s.store, cfg.limit, "none", TRUE, TRUE)
            IN  /\ names' = IF capturing THEN names + 2 ELSE names
                /\ IF CreateRaises(row, cfg)
                   THEN /\ store' = s.store
                        /\ UNCHANGED <<history, mails, now>>
                   ELSE /\ history' = [history EXCEPT ![id] = a.checks]
                        /\ store' = a.store
                        /\ mails' = mails \cup a.mails
                        /\ now' = now + 1
    /\ UNCHANGED <<page, cfg, temps, checks, last, calls, pages, ctl, tasks>>

\* the run_checks command
NextScheduler ==
    \/ RunChecks
    \/ \E i \in DOMAIN tasks : TaskProbe(i)
    \/ \E i \in DOMAIN tasks : TaskCapture(i)
    \/ \E i \in DOMAIN tasks : TaskCreate(i)
    \/ GatherReturns
    \/ GatherRaises
    \/ \E i \in DOMAIN tasks : TaskCancelled(i)
    \/ LoopCrashes
    \/ AfterRound
    \/ Sleep

\* run_checks --once and the requests of the web process
NextOnce ==
    \/ RunChecks
    \/ \E i \in DOMAIN tasks : TaskProbe(i)
    \/ \E i \in DOMAIN tasks : TaskCapture(i)
    \/ \E i \in DOMAIN tasks : TaskCreate(i)
    \/ GatherReturns
    \/ GatherRaises
    \/ \E i \in DOMAIN tasks : TaskCancelled(i)
    \/ LoopCrashes
    \/ AfterRound
    \/ \E id \in PageIds : Register(id)
    \/ PageListRequest
    \/ \E id \in PageIds, origin \in {"register", "page_list"} : ViewCheck(id, origin)

\* the variables of the single-page specifications, unused under the scheduler
NoSinglePage ==
    /\ page = SchedPage(1, GoodUrl, 1, TRUE)
    /\ checks = <<>>
    /\ last = NoInvocation

\* no check has run yet; the database enforces the column lengths
NoChecksYet ==
    /\ NoSinglePage
    /\ temps = 0
    /\ cfg = Deployment(1, TRUE, "local", FALSE, {TRUE}, FALSE)
    /\ history = [id \in PageIds |-> <<>>]
    /\ tasks = <<>>
    /\ threads = [id \in PageIds |-> [register |-> 0, page_list |-> 0]]
    /\ store = {}
    /\ now = 1
    /\ names = 1
    /\ mails = {}

\* the command starts: page 1 is registered and captures, page 2 is registered or not
InitRounds ==
    /\ NoChecksYet
    /\ \/ pages = (1 :> SchedPage(1, GoodUrl, 1, TRUE))
       \/ \E pg \in Registered(2) : pages = (1 :> SchedPage(1, GoodUrl, 1, TRUE)) @@ (2 :> pg)
    /\ ctl \in {[pc |-> "loop", round |-> 0, now |-> 0, once |-> once] : once \in BOOLEAN}
    /\ calls = 0

\* continuous mode with both pages registered
InitContinuous ==
    /\ InitRounds
    /\ DOMAIN pages = PageIds
    /\ ~ctl.once

\* run_checks --once next to a web process that serves requests
InitOnce ==
    /\ NoChecksYet
    /\ \/ pages = (1 :> SchedPage(1, GoodUrl, 1, TRUE))
       \/ \E pg \in Registrations(2) : pages = (1 :> SchedPage(1, GoodUrl, 1, TRUE)) @@ (2 :> pg)
    /\ ctl = [pc |-> "loop", round |-> 0, now |-> 0, once |-> TRUE]
    /\ calls = MaxRequests

SpecRounds == InitRounds /\ [][NextScheduler]_vars

\* the loop and the coroutines keep running: the thread of the command is scheduled
\* and every dispatched check terminates
FairRounds == InitContinuous /\ [][NextScheduler]_vars /\ WF_vars(NextScheduler)

SpecOnce == InitOnce /\ [][NextOnce]_vars

(***************************************************************************)
(* The storage backends and compute_diff called on their own, on every     *)
(* backend, with stored and missing paths (pages/storage.py,               *)
(* pages/screenshots.py).                                                  *)
(***************************************************************************)
\* the paths handed to the calls
StoragePaths == {Path(1, 1, ".jpg"), Path(1, 1, "_crop.jpg"), Path(1, 2, ".jpg")}

\* screenshot_storage.exists(rel_path)
StorageExistsCall ==
    /\ calls > 0
    /\ \E rel_path \in StoragePaths \cup {NoPath}, reply \in BackendReplies(cfg.backend) :
           LET r == ExistsOn(cfg.backend, store, rel_path, reply)
           IN  last' = [op |-> "exists", path |-> rel_path, reply |-> reply,
                        before |-> store, raised |-> r.raised, value |-> r.value]
    /\ calls' = calls - 1
    /\ UNCHANGED <<page, cfg, temps, checks, store, now, names, mails>>
    /\ UNCHANGED schedVars

\* screenshot_storage.delete(rel_path)
StorageDeleteCall ==
    /\ calls > 0
    /\ \E rel_path \in StoragePaths \cup {NoPath}, reply \in BackendReplies(cfg.backend) :
           LET r == DeleteOn(cfg.backend, store, rel_path, reply)
           IN  /\ store' = r.store
               /\ last' = [op |-> "delete", path |-> rel_path, reply |-> reply,
                            before |-> store, raised |-> r.raised]
    /\ calls' = calls - 1
    /\ UNCHANGED <<page, cfg, temps, checks, now, names, mails>>
    /\ UNCHANGED schedVars

\* compute_diff(prev_rel_path, curr_rel_path, page_id)
ComputeDiffCall ==
    /\ calls > 0
    /\ \E prev_rel_path \in StoragePaths \cup {NoPath},
          curr_rel_path \in StoragePaths \cup {NoPath},
          d \in DiffOutcomes(cfg.backend) :
           LET r == ComputeDiff(prev_rel_path, curr_rel_path, store, page.id, names, d)
           IN  /\ store' = r.store
               /\ last' = [op |-> "compute_diff", prev |-> prev_rel_path,
                            curr |-> curr_rel_path, outcome |-> d.kind,
                            before |-> store, raised |-> r.raised,
                            diff |-> r.diff, score |-> r.score]
    /\ names' = names + 1
    /\ calls' = calls - 1
    /\ UNCHANGED <<page, cfg, temps, checks, now, mails>>
    /\ UNCHANGED schedVars

NextStorage == StorageExistsCall \/ StorageDeleteCall \/ ComputeDiffCall

\* any of the three backends, holding any of the paths
InitStorage ==
    /\ page = PageRow(GoodUrl, "", FALSE, 1, TRUE, FALSE, WholePage)
    /\ temps = 0
    /\ cfg \in {Deployment(MaxLimit, FALSE, backend, FALSE, {FALSE}, FALSE) :
                    backend \in Backends}
    /\ store \in SUBSET StoragePaths
    /\ names = 3
    /\ calls = MaxStoreOps
    /\ NoScheduler
    /\ checks = <<>>
    /\ now = 1
    /\ mails = {}
    /\ last = NoInvocation

SpecStorage == InitStorage /\ [][NextStorage]_vars

(***************************************************************************)
(* Serving a stored artifact (pages/views.py, serve_screenshot). A request *)
(* path is the sequence of its "/"-separated segments.                     *)
(***************************************************************************)
\* request.user of a request without a session
Anonymous == "anonymous"

\* the accounts
Users == {"u1", "u2"}

\* a MonitoredPage row with its owner
OwnedPage(id, user) == [user |-> user] @@ SchedPage(id, GoodUrl, DefaultCheckInterval, FALSE)

\* the paths requested: stored files of both pages, a zero-padded and an unused
\* page number, paths with a ".." segment, a first segment that is no number,
\* "." (which has no parts) and a directory
RequestPaths ==
    {<<"1", "a.jpg">>, <<"2", "a.jpg">>, <<"01", "a.jpg">>, <<"3", "a.jpg">>,
     <<"1", "..", "2", "a.jpg">>, <<"..", "2", "a.jpg">>, <<"x", "a.jpg">>, <<>>, <<"2">>}

\* int(safe.parts[0]); ValueError as None
IntOfSegment(seg) ==
    CASE seg = "1" -> Some(1)
      [] seg = "01" -> Some(1)
      [] seg = "2" -> Some(2)
      [] seg = "3" -> Some(3)
      [] OTHER -> None

\* the directory str(page_id) that _unique_filename writes to
DirOfPage(seg) ==
    CASE seg = "1" -> Some(1)
      [] seg = "2" -> Some(2)
      [] seg = "3" -> Some(3)
      [] OTHER -> None

RECURSIVE Resolve(_, _)
\* the file system's reading of a relative path under the screenshots root
Resolve(segs, acc) ==
    IF segs = <<>> THEN acc
    ELSE IF Head(segs) = ".." /\ acc # <<>> /\ acc[Len(acc)] # ".."
         THEN Resolve(Tail(segs), SubSeq(acc, 1, Len(acc) - 1))
         ELSE Resolve(Tail(segs), Append(acc, Head(segs)))

\* the stored path a request path names: a file "<page_id>/a.jpg"; the local
\* backend resolves the path on the file system, a bucket takes the key as it is
ObjectAt(backend, segs) ==
    LET key == IF backend = "local" THEN Resolve(segs, <<>>) ELSE segs
    IN  IF Len(key) = 2 /\ DirOfPage(key[1]) # None /\ key[2] = "a.jpg"
        THEN Path(DirOfPage(key[1])[1], 1, ".jpg")
        ELSE NoPath

\* a response: its status and the stored object whose bytes or URL it carries
Response(status, artifact) == [status |-> status, artifact |-> artifact]

\* faulty variant: a path with a ".." segment is not turned away
ServeScreenshot_NoTraversalCheck(user, segs, pgs, st, backend, reply, fetch_ok) ==
    IF user = Anonymous THEN Response(401, NoPath)
    ELSE IF segs = <<>> THEN Response(404, NoPath)
    ELSE IF IntOfSegment(segs[1]) = None THEN Response(404, NoPath)
    ELSE LET page_id == IntOfSegment(segs[1])[1]
             rel == ObjectAt(backend, segs)
             found == ExistsOn(backend, st, rel, reply)
         IN  IF ~(page_id \in DOMAIN pgs /\ pgs[page_id].user = user)
             THEN Response(403, NoPath)
             ELSE IF found.raised THEN Response(500, NoPath)
             ELSE IF ~found.value THEN Response(404, NoPath)
             ELSE IF ~fetch_ok THEN Response(404, NoPath)
             ELSE Response(IF backend = "s3" THEN 302 ELSE 200, rel)

\* views.serve_screenshot(request, path)
ServeScreenshot(user, segs, pgs, st, backend, reply, fetch_ok) ==
    IF user = Anonymous THEN Response(401, NoPath)
    ELSE IF \E i \in DOMAIN segs : segs[i] = ".." THEN Response(404, NoPath)
    ELSE IF segs = <<>> THEN Response(404, NoPath)
    ELSE IF IntOfSegment(segs[1]) = None THEN Response(404, NoPath)
    ELSE LET page_id == IntOfSegment(segs[1])[1]
             rel == ObjectAt(backend, segs)
             found == ExistsOn(backend, st, rel, reply)
         IN  IF ~(page_id \in DOMAIN pgs /\ pgs[page_id].user = user)
             THEN Response(403, NoPath)
             ELSE IF found.raised THEN Response(500, NoPath)
             ELSE IF ~found.value THEN Response(404, NoPath)
             ELSE IF ~fetch_ok THEN Response(404, NoPath)
             ELSE Response(IF backend = "s3" THEN 302 ELSE 200, rel)

\* GET api/screenshots/<path:path>
ServeScreenshotRequest ==
    /\ calls > 0
    /\ \E user \in Users \cup {Anonymous}, segs \in RequestPaths,
          reply \in BackendReplies(cfg.backend), fetch_ok \in BOOLEAN :
           LET r == ServeScreenshot(user, segs, pages, store, cfg.backend, reply, fetch_ok)
           IN  last' = [op |-> "serve", user |-> user, path |-> segs,
                        status |-> r.status, artifact |-> r.artifact]
    /\ calls' = calls - 1
    /\ UNCHANGED <<page, cfg, temps, checks, store, now, names, mails,
                   pages, history, ctl, tasks, threads>>

NextServe == ServeScreenshotRequest

\* page 1 belongs to u1, page 2 to either account or to nobody; the store holds
\* any of the two pages' files
InitServe ==
    /\ page = PageRow(GoodUrl, "", FALSE, 1, TRUE, FALSE, WholePage)
    /\ temps = 0
    /\ cfg \in {Deployment(MaxLimit, FALSE, backend, FALSE, {FALSE}, FALSE) :
                    backend \in Backends}
    /\ \/ pages = (1 :> OwnedPage(1, "u1"))
       \/ \E user \in Users : pages = (1 :> OwnedPage(1, "u1")) @@ (2 :> OwnedPage(2, user))
    /\ store \in SUBSET {Path(1, 1, ".jpg"), Path(2, 1, ".jpg")}
    /\ history = [id \in PageIds |-> <<>>]
    /\ ctl = [pc |-> "off", round |-> 0, now |-> 0, once |-> FALSE]
    /\ tasks = <<>>
    /\ threads = [id \in PageIds |-> [register |-> 0, page_list |-> 0]]
    /\ names = 3
    /\ calls = MaxServes
    /\ checks = <<>>
    /\ now = 1
    /\ mails = {}
    /\ last = NoInvocation

SpecServe == InitServe /\ [][NextServe]_vars

(***************************************************************************)
(* Deleting a page (pages/views.py, monitor_site_delete) while the checks  *)
(* started by page-list requests run.                                      *)
(***************************************************************************)
\* the loop body of monitor_site_delete for one check
DeleteCheckArtifacts(st, check) ==
    LET a == DeleteScreenshotFile(st, check.screenshot_path)
        b == DeleteScreenshotFile(a, check.crop_path)
        c == DeleteScreenshotFile(b, check.diff_path)
    IN  IF check.screenshot_path # NoPath
        THEN DeleteScreenshotFile(c, ThumbRel(check.screenshot_path))
        ELSE c

\* faulty variant: the thumbnails are left in the store
DeleteAllArtifacts_KeepsThumbnails(st, prows) ==
    {o \in st : \A k \in DOMAIN prows :
         o \notin {prows[k].screenshot_path, prows[k].crop_path, prows[k].diff_path}}

RECURSIVE DeleteAllArtifacts(_, _)
\* for check in page.checks.all(): ...
DeleteAllArtifacts(st, prows) ==
    IF prows = <<>> THEN st
    ELSE DeleteAllArtifacts(DeleteCheckArtifacts(st, Head(prows)), Tail(prows))

\* the pages of this section: page 1 monitors a region, page 2 the whole page
SitePage(id) ==
    IF id = 1
    THEN [SchedPage(1, GoodUrl, DefaultCheckInterval, FALSE) EXCEPT
              !.region_width_pct = TopLeftQuarter.w,
              !.region_height_pct = TopLeftQuarter.h]
    ELSE SchedPage(id, GoodUrl, DefaultCheckInterval, FALSE)

\* monitor_site_delete up to page.delete(): the rows are read and the artifacts
\* they name are deleted from the store
DeleteArtifacts(id) ==
    /\ id \in DOMAIN pages
    /\ threads[id].delete = "no"
    /\ store' = DeleteAllArtifacts(store, history[id])
    /\ threads' = [threads EXCEPT ![id].delete = "artifacts",
                                  ![id].seen = Len(history[id])]
    /\ UNCHANGED <<page, cfg, temps, checks, now, names, mails, last, calls,
                   pages, history, ctl, tasks>>

\* page.delete(): the page goes and, by on_delete=CASCADE, every row of it
DeletePage(id) ==
    /\ id \in DOMAIN pages
    /\ threads[id].delete = "artifacts"
    /\ pages' = [k \in DOMAIN pages \ {id} |-> pages[k]]
    /\ history' = [history EXCEPT ![id] = <<>>]
    /\ threads' = [threads EXCEPT ![id].delete = "done"]
    /\ UNCHANGED <<page, cfg, temps, checks, store, now, names, mails, last, calls,
                   ctl, tasks>>

\* a _bg_capture thread whose page has been deleted meanwhile: it probes and
\* captures, and MonitoredPageCheck.objects.create raises IntegrityError
CheckOfDeletedPage(id) ==
    /\ id \notin DOMAIN pages
    /\ threads[id].page_list > 0
    /\ threads' = [threads EXCEPT ![id].page_list = @ - 1]
    /\ \E o \in RoundProbes(SitePage(id).url) :
        LET pg == SitePage(id)
            p == ViewsProbe(o)
        IN  \E cap \in RoundCaptures(pg, p.is_up) :
            \E d \in RoundDiffs(<<>>, p.is_up, cap, cfg.backend) :
            LET s == ViewsScreenshotStage(pg, <<>>, store, names, TRUE, p.is_up, cap, d)
            IN  /\ store' = s.store
                /\ names' = IF p.is_up THEN names + 2 ELSE names
    /\ UNCHANGED <<page, cfg, temps, checks, now, mails, last, calls,
                   pages, history, ctl, tasks>>

\* the web process: page lists, their background checks and deletions
NextDelete ==
    \/ PageListRequest
    \/ \E id \in PageIds : id \in DOMAIN pages /\ ViewCheck(id, "page_list")
    \/ \E id \in PageIds : DeleteArtifacts(id)
    \/ \E id \in PageIds : DeletePage(id)
    \/ \E id \in PageIds : CheckOfDeletedPage(id)

\* two registered pages without checks, no scheduler
InitDelete ==
    /\ NoSinglePage
    /\ temps = 0
    /\ cfg = Deployment(MaxLimit, TRUE, "local", FALSE, {TRUE}, FALSE)
    /\ pages = [id \in PageIds |-> SitePage(id)]
    /\ history = [id \in PageIds |-> <<>>]
    /\ ctl = [pc |-> "off", round |-> 0, now |-> 0, once |-> FALSE]
    /\ tasks = <<>>
    /\ threads = [id \in PageIds |->
                      [register |-> 0, page_list |-> 0, delete |-> "no", seen |-> 0]]
    /\ store = {}
    /\ now = 1
    /\ names = 1
    /\ mails = {}
    /\ calls = MaxListRequests

SpecDelete == InitDelete /\ [][NextDelete]_vars

(***************************************************************************)
(* Registering pages (pages/views.py, monitor, POST): each request runs to *)
(* its response before the next one starts.                                *)
(***************************************************************************)
\* the URLs posted as webpageURL
PostedUrls == {GoodUrl, LongBadUrl}

\* MonitoredPage.objects.get_or_create(user=user, url=url): the row found, if any
Monitored(pgs, user, url) ==
    {id \in DOMAIN pgs : pgs[id].user = user /\ pgs[id].url = url}

\* the row get_or_create inserts: the next id, every setting at its default
CreatedPage(id, user, url) ==
    [user |-> user] @@ SchedPage(id, url, DefaultCheckInterval, FALSE)

\* faulty variant: the first check is not forced to capture
FirstCheckStage_NotForced(pg, st, n, is_up, cap, d) ==
    ViewsScreenshotStage(pg, <<>>, st, n, FALSE, is_up, cap, d)

\* if created: _perform_single_check(page, force_screenshot=True), its
\* screenshot stage on a page that has no rows yet
FirstCheckStage(pg, st, n, is_up, cap, d) ==
    ViewsScreenshotStage(pg, <<>>, st, n, TRUE, is_up, cap, d)

\* what last records of a POST: who posted what, whether get_or_create created
\* the page, its id, the status of the response, what the probe and the capture
\* of the first check did, and the pages, rows and store before the request
Registration(user, url, created, id, status, is_up, captured) ==
    [op |-> "monitor_post", user |-> user, url |-> url, created |-> created,
     page_id |-> id, status |-> status, is_up |-> is_up, captured |-> captured,
     before |-> [pages |-> pages, history |-> history, store |-> store,
                 names |-> names]]

\* POST monitor for a URL the user does not monitor yet: the page is created and
\* checked in the request; an exception of the INSERT leaves the view (500)
RegisterNew(user, url) ==
    /\ calls > 0
    /\ Monitored(pages, user, url) = {}
    /\ LET id == Cardinality(DOMAIN pages) + 1
           pg == CreatedPage(id, user, url)
       IN  /\ pages' = pages @@ (id :> pg)
           /\ \E o \in ProbeOutcomes(url), ms \in ResponseTimes :
               LET p == ViewsProbe(o)
               IN  \E cap \in Captures(pg, p.is_up) :
                   \E d \in Diffs(<<>>, p.is_up, cap, cfg.backend) :
                   LET s == FirstCheckStage(pg, store, names, p.is_up, cap, d)
                       row == NewRow(p, s, ms, now)
                       a == ViewsAfterCreate(pg, <<row>>, s.store, cfg.limit,
                                             "none", TRUE, TRUE)
                   IN  /\ names' = IF p.is_up THEN names + 2 ELSE names
                       /\ IF CreateRaises(row, cfg)
                          THEN /\ history' = history @@ (id :> <<>>)
                               /\ store' = s.store
                               /\ UNCHANGED <<mails, now>>
                               /\ last' = Registration(user, url, TRUE, id, 500,
                                                       p.is_up, cap.ok)
                          ELSE /\ history' = history @@ (id :> a.checks)
                               /\ store' = a.store
                               /\ mails' = mails \cup a.mails
                               /\ now' = now + 1
                               /\ last' = Registration(user, url, TRUE, id, 201,
                                                       p.is_up, cap.ok)
    /\ calls' = calls - 1
    /\ UNCHANGED <<page, cfg, temps, checks, ctl, tasks, threads>>

\* POST monitor for a URL the user monitors already: created is False, 200
RegisterAgain(user, url) ==
    /\ calls > 0
    /\ \E id \in Monitored(pages, user, url) :
           last' = Registration(user, url, FALSE, id, 200, FALSE, FALSE)
    /\ calls' = calls - 1
    /\ UNCHANGED <<page, cfg, temps, checks, store, now, names, mails,
                   pages, history, ctl, tasks, threads>>

NextRegister ==
    \/ \E user \in Users, url \in PostedUrls : RegisterNew(user, url)
    \/ \E user \in Users, url \in PostedUrls : RegisterAgain(user, url)

\* no page is registered; the database enforces the column lengths or not
InitRegister ==
    /\ EmptyHistory
    /\ page = SchedPage(1, GoodUrl, 1, TRUE)
    /\ temps = 0
    /\ cfg \in {Deployment(MaxLimit, enforcing, "local", FALSE, {TRUE}, FALSE) :
                    enforcing \in BOOLEAN}
    /\ calls = MaxRegistrations

SpecRegister == InitRegister /\ [][NextRegister]_vars

(***************************************************************************)
(* The settings of a page (pages/views.py, monitor_site_settings).  A      *)
(* number of the request body is held in hundredths, a region fraction of  *)
(* the page in percent.                                                    *)
(***************************************************************************)
\* the values json.loads yields for a key of the body
Num(h) == [kind |-> "number", h |-> h]
Bool(b) == [kind |-> "bool", b |-> b]
Str(s) == [kind |-> "string", s |-> s]
Null == [kind |-> "null"]
NaN == [kind |-> "nan"]
Infinity == [kind |-> "inf"]
UrlStr(u) == [kind |-> "url", url |-> u]

\* '   '.strip() == ''
BlankUrl == [scheme |-> "", rest |-> ""]

\* the result of a Python conversion: the value, or the exception raised
Converted(v) == [raised |-> "none", v |-> v]
Raises(exc) == [raised |-> exc, v |-> 0]

\* int(x): floats are truncated towards zero, True is 1, a string must spell an
\* integer, nan is a ValueError, inf an OverflowError, None a TypeError
PyInt(x) ==
    CASE x.kind = "number" -> Converted(IF x.h >= 0 THEN x.h \div 100
                                        ELSE -((-x.h) \div 100))
      [] x.kind = "bool" -> Converted(IF x.b THEN 1 ELSE 0)
      [] x.kind = "string" -> IF x.s = "5" THEN Converted(5) ELSE Raises("ValueError")
      [] x.kind = "nan" -> Raises("ValueError")
      [] x.kind = "inf" -> Raises("OverflowError")
      [] OTHER -> Raises("TypeError")

\* float(x) in hundredths; nan and inf are values that fail every comparison
\* with the bounds
PyFloat(x) ==
    CASE x.kind = "number" -> Converted(Some(x.h))
      [] x.kind = "bool" -> Converted(Some(IF x.b THEN 100 ELSE 0))
      [] x.kind = "string" -> IF x.s = "5" THEN Converted(Some(500))
                              ELSE IF x.s = "0.5" THEN Converted(Some(50))
                              ELSE Raises("ValueError")
      [] x.kind \in {"nan", "inf"} -> Converted(None)
      [] OTHER -> Raises("TypeError")

\* bool(x)
PyBool(x) ==
    CASE x.kind = "bool" -> x.b
      [] x.kind = "number" -> x.h # 0
      [] x.kind = "string" -> x.s # ""
      [] x.kind \in {"nan", "inf"} -> TRUE
      [] OTHER -> FALSE

\* 1 <= check_interval <= 60
MinCheckInterval == 1
MaxCheckInterval == 60
\* 1 <= alert_threshold <= 10
MinAlertThreshold == 1
MaxAlertThreshold == 10
\* MonitoredPage.alert_threshold = IntegerField(default=3)
DefaultAlertThreshold == 3

\* the response of the view and the row as it is stored afterwards
SettingsResponse(status, pg) == [status |-> status, page |-> pg]

\* "if 'url' in data": page.url = url unless it is blank; .strip() of a value that
\* is not a string raises AttributeError
SetUrl(pg, data) ==
    IF "url" \notin DOMAIN data THEN Converted(pg)
    ELSE IF data["url"].kind # "url" THEN Raises("AttributeError")
    ELSE IF data["url"].url = BlankUrl THEN Converted(pg)
    ELSE Converted([pg EXCEPT !.url = data["url"].url])

\* "if <key> in data" for an integer setting: 400 outside the bounds and on
\* ValueError or TypeError; any other exception leaves the view
SetInteger(pg, data, key, attr, lo, hi) ==
    IF key \notin DOMAIN data THEN Converted(pg)
    ELSE LET c == PyInt(data[key])
         IN  IF c.raised \in {"ValueError", "TypeError"} THEN Raises("400")
             ELSE IF c.raised # "none" THEN Raises(c.raised)
             ELSE IF lo <= c.v /\ c.v <= hi THEN Converted([pg EXCEPT ![attr] = c.v])
             ELSE Raises("400")

\* "if <key> in data" for a flag
SetFlag(pg, data, key, attr) ==
    IF key \notin DOMAIN data THEN pg
    ELSE [pg EXCEPT ![attr] = PyBool(data[key])]

\* one round of the loop over region_fields
SetRegionField(pg, data, key, attr) ==
    IF key \notin DOMAIN data THEN Converted(pg)
    ELSE LET c == PyFloat(data[key])
         IN  IF c.raised \in {"ValueError", "TypeError"} THEN Raises("400")
             ELSE IF c.raised # "none" THEN Raises(c.raised)
             ELSE IF c.v # None /\ 0 <= c.v[1] /\ c.v[1] <= 100
             THEN Converted([pg EXCEPT ![attr] = c.v[1]])
             ELSE Raises("400")

\* region_fields
RegionFields ==
    <<[key |-> "regionLeftPct", attr |-> "region_left_pct"],
      [key |-> "regionTopPct", attr |-> "region_top_pct"],
      [key |-> "regionWidthPct", attr |-> "region_width_pct"],
      [key |-> "regionHeightPct", attr |-> "region_height_pct"]>>

\* the next step of the view on the row in hand, unless the step before it
\* returned a response or raised
Then(r, Step(_)) ==
    CHOOSE out \in {IF x.raised # "none" THEN x ELSE Step(x.v) : x \in {r}} : TRUE

RECURSIVE SetRegion(_, _, _)
\* for frontend_key, model_attr in region_fields: ...
SetRegion(pg, data, fields) ==
    IF fields = <<>> THEN Converted(pg)
    ELSE Then(SetRegionField(pg, data, Head(fields).key, Head(fields).attr),
              LAMBDA p : SetRegion(p, data, Tail(fields)))

\* the row in memory when the view reaches page.save(), or what stopped it
SettingsRead(pg, data) ==
    Then(Then(Then(Then(Then(Then(
        SetUrl(pg, data),
        LAMBDA p : SetInteger(p, data, "checkInterval", "check_interval",
                              MinCheckInterval, MaxCheckInterval)),
        LAMBDA p : Converted(SetFlag(p, data, "notificationsEnabled",
                                     "notifications_enabled"))),
        LAMBDA p : SetInteger(p, data, "alertThreshold", "alert_threshold",
                              MinAlertThreshold, MaxAlertThreshold)),
        LAMBDA p : Converted(SetFlag(p, data, "screenshotEnabled",
                                     "screenshot_enabled"))),
        LAMBDA p : Converted(SetFlag(p, data, "changeNotificationsEnabled",
                                     "change_notifications_enabled"))),
        LAMBDA p : SetRegion(p, data, RegionFields))

\* faulty variant: the row is saved as far as it was changed when a value is refused
MonitorSiteSettings_SavesEarlier(pg, data) ==
    CHOOSE resp \in
        {IF r.raised = "400"
         THEN SettingsResponse(400, SetFlag(pg, data, "notificationsEnabled",
                                            "notifications_enabled"))
         ELSE IF r.raised # "none" THEN SettingsResponse(500, pg)
         ELSE SettingsResponse(200, r.v) : r \in {SettingsRead(pg, data)}} : TRUE

\* monitor_site_settings for the owner of the page and a body that parses: the
\* in-memory row is changed key by key and saved when no value was refused; an
\* exception the view does not catch is answered with 500
MonitorSiteSettings(pg, data) ==
    CHOOSE resp \in
        {IF r.raised = "400" THEN SettingsResponse(400, pg)
         ELSE IF r.raised # "none" THEN SettingsResponse(500, pg)
         ELSE SettingsResponse(200, r.v) : r \in {SettingsRead(pg, data)}} : TRUE

\* the values posted for each key
IntervalValues ==
    {Num(0), Num(100), Num(6000), Num(6090), Num(6100), Bool(TRUE), Str("5"),
     Str("abc"), Null, Infinity}

ThresholdValues ==
    {Num(0), Num(100), Num(1000), Num(1050), Num(1100), Bool(TRUE), Str("abc"), Null}

FractionValues ==
    {Num(-1), Num(0), Num(50), Num(100), Num(101), Str("0.5"), Str("abc"), NaN}

FlagValues == {Bool(TRUE), Bool(FALSE)}

UrlValues == {UrlStr(GoodUrl), UrlStr(BlankUrl), Null}

\* the values explored for a key of the body
SettingsValues(key) ==
    CASE key = "checkInterval" -> IntervalValues
      [] key = "alertThreshold" -> ThresholdValues
      [] key \in {"regionWidthPct", "regionHeightPct"} -> FractionValues
      [] key = "url" -> UrlValues
      [] OTHER -> FlagValues

SettingsKeys ==
    {"url", "checkInterval", "notificationsEnabled", "alertThreshold",
     "regionWidthPct", "regionHeightPct"}

\* the JSON objects with at most MaxKeys of these keys
SettingsBodies ==
    UNION {{data \in [keys -> UNION {SettingsValues(k) : k \in keys}] :
                \A k \in keys : data[k] \in SettingsValues(k)} :
           keys \in {ks \in SUBSET SettingsKeys : Cardinality(ks) <= MaxKeys}}

\* what last records of a settings request: who sent it, the parsed body and the
\* status of the response
SettingsCall(who, data, status) ==
    [op |-> "settings", who |-> who, data |-> data, status |-> status]

\* PUT or PATCH of the settings of the page
SettingsRequest ==
    /\ calls > 0
    /\ \/ /\ page' = page
          /\ last' = SettingsCall("anonymous", <<>>, 401)
       \/ /\ page' = page
          /\ last' = SettingsCall("other", <<>>, 404)
       \/ \* json.loads raises JSONDecodeError
          /\ page' = page
          /\ last' = SettingsCall("owner", <<>>, 400)
       \/ \E data \in SettingsBodies :
              \E r \in {MonitorSiteSettings(page, data)} :
                  /\ page' = r.page
                  /\ last' = SettingsCall("owner", data, r.status)
    /\ calls' = calls - 1
    /\ UNCHANGED <<cfg, temps, checks, store, now, names, mails>>
    /\ UNCHANGED schedVars

NextSettings == SettingsRequest

\* the page as POST monitor creates it
NewPage ==
    [SchedPage(1, GoodUrl, DefaultCheckInterval, FALSE) EXCEPT
         !.alert_threshold = DefaultAlertThreshold]

InitSettings ==
    /\ page = NewPage
    /\ temps = 0
    /\ cfg = Deployment(MaxLimit, FALSE, "local", FALSE, {FALSE}, FALSE)
    /\ calls = MaxSettingsRequests
    /\ EmptyHistory

SpecSettings == InitSettings /\ [][NextSettings]_vars

(***************************************************************************)
(* Checks of one page interleaved with changes of its region.              *)
(***************************************************************************)
\* the two images compute_diff opens and hashes, if it gets that far: the
\* arguments prev_diff_source and diff_source of the executors
ComparedImages(pg, rows, st, n, cap, d) ==
    LET c == CaptureScreenshot(pg, st, n, cap)
        diff_source == OrPath(c.crop, c.full)
        prev == First(OrderByCheckedAtDesc(rows, DOMAIN rows))
    IN  IF c.full # NoPath /\ prev # None /\ rows[prev[1]].screenshot_path # NoPath
        THEN LET prev_check == rows[prev[1]]
                 prev_diff_source == OrPath(prev_check.crop_path,
                                            prev_check.screenshot_path)
             IN  IF /\ d.kind = "hashed"
                    /\ StorageExists(c.store, prev_diff_source)
                    /\ StorageExists(c.store, diff_source)
                 THEN Some([prev |-> prev_diff_source, curr |-> diff_source])
                 ELSE None
        ELSE None

\* the bodies that set the size of the monitored region
RegionBodies ==
    {data \in [{"regionWidthPct", "regionHeightPct"} -> {Num(50), Num(100)}] :
         data["regionWidthPct"] = data["regionHeightPct"]}

\* the owner changes the region of the page
RegionRequest ==
    /\ calls > 0
    /\ \E data \in RegionBodies :
           \E r \in {MonitorSiteSettings(page, data)} :
               /\ r.page # page
               /\ page' = r.page
               /\ last' = SettingsCall("owner", data, r.status)
    /\ calls' = calls - 1
    /\ UNCHANGED <<cfg, temps, checks, store, now, names, mails>>
    /\ UNCHANGED schedVars

\* what last records of a check: the executor, the images compared, and the rows
\* and the store before it
Comparison(executor, compared) ==
    [op |-> "check", executor |-> executor, compared |-> compared,
     before |-> [checks |-> checks, store |-> store]]

\* a check of the page by either executor, the site being up
RegionCheck(executor) ==
    /\ calls > 0
    /\ \E o \in {o \in ProbeOutcomes(page.url) : ViewsProbe(o).is_up}, ms \in ResponseTimes :
        LET p == IF executor = "views" THEN ViewsProbe(o) ELSE CheckUrl(o)
            capturing == page.screenshot_enabled /\ p.is_up
        IN  \E cap \in Captures(page, capturing) :
            \E d \in Diffs(checks, capturing, cap, cfg.backend) :
            LET s == IF executor = "views"
                     THEN ViewsScreenshotStage(page, checks, store, names, FALSE,
                                               p.is_up, cap, d)
                     ELSE CommandScreenshotStage(page, checks, store, names,
                                                 p.is_up, cap, d)
                rows1 == Append(checks, NewRow(p, s, ms, now))
                a == IF executor = "views"
                     THEN ViewsAfterCreate(page, rows1, s.store, cfg.limit,
                                           "none", TRUE, TRUE)
                     ELSE CommandAfterCreate(page, rows1, s.store, cfg.limit,
                                             "none", TRUE, TRUE)
            IN  /\ names' = IF capturing THEN names + 2 ELSE names
                /\ checks' = a.checks
                /\ store' = a.store
                /\ mails' = mails \cup a.mails
                /\ now' = now + 1
                /\ last' = Comparison(executor,
                                      ComparedImages(page, checks, store, names, cap, d))
    /\ calls' = calls - 1
    /\ UNCHANGED <<page, cfg, temps>>
    /\ UNCHANGED schedVars

NextRegion ==
    \/ RegionRequest
    \/ RegionCheck("views")
    \/ RegionCheck("command")

\* a page that captures, monitoring the whole page or a region of it
InitRegion ==
    /\ page \in {[NewPage EXCEPT !.screenshot_enabled = TRUE,
                                 !.region_width_pct = region.w,
                                 !.region_height_pct = region.h] :
                     region \in {WholePage, TopLeftQuarter}}
    /\ temps = 0
    /\ cfg = Deployment(MaxLimit, FALSE, "local", FALSE, {FALSE}, FALSE)
    /\ calls = MaxRegionSteps
    /\ EmptyHistory

SpecRegion == InitRegion /\ [][NextRegion]_vars

(***************************************************************************)
(* The transient local copies that Pillow works on (storage.local_path and *)
(* its four callers in pages/screenshots.py), on every backend.            *)
(***************************************************************************)
\* <backend>.local_path(rel_path): whether a path is returned, and the files it
\* leaves in the temp directory.  The local backend returns the stored file
\* itself.  The bucket backends create NamedTemporaryFile(delete=False) and
\* download into it; when the download fails they return None and the file stays
LocalPath(backend, st, rel_path, reply) ==
    IF backend = "local" THEN [found |-> rel_path \in st, created |-> 0]
    ELSE [found |-> reply = "ok" /\ rel_path \in st, created |-> 1]

\* what a caller of local_path does with the copies: how many were created for
\* it, how many it removed, and the store when it returns
Copies(created, removed, st) == [created |-> created, removed |-> removed, store |-> st]

\* compute_diff: both copies are fetched before either is looked at, and no
\* statement of the function removes them (_prev_is_tmp and _curr_is_tmp are
\* never read)
ComputeDiffCopies(backend, st, prev_rel_path, curr_rel_path, page_id, n, d, r1, r2) ==
    IF \/ prev_rel_path = NoPath \/ curr_rel_path = NoPath
       \/ d.kind = "exists_raised"
       \/ ~StorageExists(st, prev_rel_path) \/ ~StorageExists(st, curr_rel_path)
    THEN Copies(0, 0, st)
    ELSE LET prev_local == LocalPath(backend, st, prev_rel_path, r1)
             curr_local == LocalPath(backend, st, curr_rel_path, r2)
             opened == IF prev_local.found /\ curr_local.found THEN d
                       ELSE [kind |-> "failed", distance |-> 0]
         IN  Copies(prev_local.created + curr_local.created, 0,
                    ComputeDiff(prev_rel_path, curr_rel_path, st, page_id, n, opened).store)

\* create_thumbnail: nothing is fetched when the thumbnail exists or exists() raises
CreateThumbnailCopies(backend, st, source_rel, e, r) ==
    LET known == ExistsOn(backend, st, ThumbRel(source_rel), e)
        local == LocalPath(backend, st, source_rel, r)
    IN  IF known.raised \/ known.value THEN Copies(0, 0, st)
        ELSE IF ~local.found THEN Copies(local.created, 0, st)
        ELSE Copies(local.created, 0, StorageSave(st, ThumbRel(source_rel)))

\* _crop_to_region: nothing is fetched when the region is the whole page
CropToRegionCopies(pg, backend, st, full_rel, r) ==
    LET local == LocalPath(backend, st, full_rel, r)
    IN  IF RegionIsFullPage(pg) THEN Copies(0, 0, st)
        ELSE Copies(local.created, 0,
                    CropToRegion(pg, st, full_rel,
                                 [ok |-> TRUE, crop_ok |-> local.found]).store)

\* _open_image_from_storage: the finally clause unlinks only if _tmp_created,
\* which is False from its assignment on
OpenImageCopies(backend, st, rel_path, r) ==
    LET local == LocalPath(backend, st, rel_path, r)
        tmp_created == FALSE
    IN  Copies(local.created, IF tmp_created /\ local.found THEN local.created ELSE 0, st)

\* what last records of a caller of local_path
CopiesCall(of, c) ==
    [op |-> "copies", of |-> of, created |-> c.created, removed |-> c.removed,
     before |-> [temps |-> temps, store |-> store]]

\* one of the four callers runs to its return
ComputeDiffFetches ==
    /\ calls > 0
    /\ \E prev_rel_path \in StoragePaths, curr_rel_path \in StoragePaths,
          d \in DiffOutcomes(cfg.backend),
          r1 \in BackendReplies(cfg.backend), r2 \in BackendReplies(cfg.backend) :
        \E c \in {ComputeDiffCopies(cfg.backend, store, prev_rel_path, curr_rel_path,
                                    page.id, names, d, r1, r2)} :
            /\ temps' = temps + c.created - c.removed
            /\ store' = c.store
            /\ last' = CopiesCall("compute_diff", c)
    /\ names' = names + 1
    /\ calls' = calls - 1
    /\ UNCHANGED <<page, cfg, checks, now, mails>>
    /\ UNCHANGED schedVars

CreateThumbnailFetches ==
    /\ calls > 0
    /\ \E source_rel \in StoragePaths,
          e \in BackendReplies(cfg.backend), r \in BackendReplies(cfg.backend) :
        \E c \in {CreateThumbnailCopies(cfg.backend, store, source_rel, e, r)} :
            /\ temps' = temps + c.created - c.removed
            /\ store' = c.store
            /\ last' = CopiesCall("create_thumbnail", c)
    /\ calls' = calls - 1
    /\ UNCHANGED <<page, cfg, checks, now, names, mails>>
    /\ UNCHANGED schedVars

CropToRegionFetches ==
    /\ calls > 0
    /\ \E full_rel \in {rel \in StoragePaths : rel[3] = ".jpg"},
          r \in BackendReplies(cfg.backend) :
        \E c \in {CropToRegionCopies(page, cfg.backend, store, full_rel, r)} :
            /\ temps' = temps + c.created - c.removed
            /\ store' = c.store
            /\ last' = CopiesCall("_crop_to_region", c)
    /\ calls' = calls - 1
    /\ UNCHANGED <<page, cfg, checks, now, names, mails>>
    /\ UNCHANGED schedVars

OpenImageFetches ==
    /\ calls > 0
    /\ \E rel_path \in StoragePaths, r \in BackendReplies(cfg.backend) :
        \E c \in {OpenImageCopies(cfg.backend, store, rel_path, r)} :
            /\ temps' = temps + c.created - c.removed
            /\ store' = c.store
            /\ last' = CopiesCall("_open_image_from_storage", c)
    /\ calls' = calls - 1
    /\ UNCHANGED <<page, cfg, checks, now, names, mails>>
    /\ UNCHANGED schedVars

NextCopies ==
    \/ ComputeDiffFetches
    \/ CreateThumbnailFetches
    \/ CropToRegionFetches
    \/ OpenImageFetches

\* any of the three backends, holding any of the paths; no copy is on disk
InitCopies ==
    /\ page \in {PageRow(GoodUrl, "", FALSE, 1, TRUE, FALSE, region) :
                     region \in {WholePage, TopLeftQuarter}}
    /\ temps = 0
    /\ cfg \in {Deployment(MaxLimit, FALSE, backend, FALSE, {FALSE}, FALSE) :
                    backend \in Backends}
    /\ store \in SUBSET StoragePaths
    /\ names = 3
    /\ calls = MaxCopyOps
    /\ NoScheduler
    /\ checks = <<>>
    /\ now = 1
    /\ mails = {}
    /\ last = NoInvocation

SpecCopies == InitCopies /\ [][NextCopies]_vars

(***************************************************************************)
(* Serving a stored artifact under every combination of the two storage    *)
(* flags of the settings (pages/storage.py, _make_storage; pages/views.py, *)
(* serve_screenshot).                                                      *)
(***************************************************************************)
\* the two flags of settings
StorageFlags == [USE_SEAWEEDFS_STORAGE : BOOLEAN, USE_S3_STORAGE : BOOLEAN]

\* storage._make_storage(): the class of screenshot_storage
MakeStorage(flags) ==
    IF flags.USE_SEAWEEDFS_STORAGE THEN "seaweedfs"
    ELSE IF flags.USE_S3_STORAGE THEN "s3"
    ELSE "local"

\* <backend>.url(rel_path): a pre-signed URL of the bucket ("" when signing
\* fails), or the URL of serve_screenshot itself
UrlOn(backend, rel_path, sign_ok) ==
    IF backend = "s3"
    THEN (IF sign_ok THEN [host |-> "bucket", path |-> rel_path] ELSE None)
    ELSE [host |-> "self", path |-> rel_path]

\* how the artifact leaves the server: a redirect, or its bytes
Redirect(location) == [status |-> 302, streamed |-> FALSE, location |-> location]
Streamed == [status |-> 200, streamed |-> TRUE, location |-> None]
NotServed(status) == [status |-> status, streamed |-> FALSE, location |-> None]

\* serve_screenshot from "if getattr(settings, 'USE_S3_STORAGE', False)" on, for
\* an object that exists: the flags are read again, in the other order
ServeStored(flags, backend, rel_path, fetch_ok) ==
    IF flags.USE_S3_STORAGE
    THEN LET presigned == UrlOn(backend, rel_path, fetch_ok)
         IN  IF presigned = None THEN NotServed(404) ELSE Redirect(presigned)
    ELSE IF flags.USE_SEAWEEDFS_STORAGE
    THEN (IF fetch_ok THEN Streamed ELSE NotServed(404))
    ELSE (IF fetch_ok THEN Streamed ELSE NotServed(404))

\* serve_screenshot under the given settings
ServeScreenshotUnder(flags, user, segs, pgs, st, reply, fetch_ok) ==
    LET backend == MakeStorage(flags)
        checked == ServeScreenshot(user, segs, pgs, st, backend, reply, TRUE)
    IN  IF checked.status \in {200, 302}
        THEN ServeStored(flags, backend, checked.artifact, fetch_ok)
        ELSE NotServed(checked.status)

\* GET api/screenshots/<path:path>
ServeUnderFlagsRequest ==
    /\ calls > 0
    /\ \E user \in Users \cup {Anonymous}, segs \in RequestPaths,
          reply \in BackendReplies(cfg.backend), fetch_ok \in BOOLEAN :
        \E r \in {ServeScreenshotUnder(cfg.flags, user, segs, pages, store,
                                       reply, fetch_ok)} :
            last' = [op |-> "serve", user |-> user, path |-> segs,
                     status |-> r.status, streamed |-> r.streamed,
                     location |-> r.location]
    /\ calls' = calls - 1
    /\ UNCHANGED <<page, cfg, temps, checks, store, now, names, mails,
                   pages, history, ctl, tasks, threads>>

NextFlags == ServeUnderFlagsRequest

\* every combination of the flags, with the backend _make_storage chooses for it
InitFlags ==
    /\ page = PageRow(GoodUrl, "", FALSE, 1, TRUE, FALSE, WholePage)
    /\ temps = 0
    /\ cfg \in {[flags |-> flags] @@
                    Deployment(MaxLimit, FALSE, MakeStorage(flags), FALSE, {FALSE}, FALSE) :
                flags \in StorageFlags}
    /\ \/ pages = (1 :> OwnedPage(1, "u1"))
       \/ \E user \in Users : pages = (1 :> OwnedPage(1, "u1")) @@ (2 :> OwnedPage(2, user))
    /\ store \in SUBSET {Path(1, 1, ".jpg"), Path(2, 1, ".jpg")}
    /\ history = [id \in PageIds |-> <<>>]
    /\ ctl = [pc |-> "off", round |-> 0, now |-> 0, once |-> FALSE]
    /\ tasks = <<>>
    /\ threads = [id \in PageIds |-> [register |-> 0, page_list |-> 0]]
    /\ names = 3
    /\ calls = MaxServes
    /\ checks = <<>>
    /\ now = 1
    /\ mails = {}
    /\ last = NoInvocation

SpecFlags == InitFlags /\ [][NextFlags]_vars

(***************************************************************************)
(* Checks whose renderer and image comparison would deliver whenever they  *)
(* are asked: whether a capture is attempted and which images are compared *)
(* is decided by the screenshot stage alone.                               *)
(***************************************************************************)
\* what last records of such a check: the executor, whether the caller forced a
\* screenshot, the probe's verdict, what the renderer would deliver, and the rows
\* and the store before it
Attempt(executor, force, is_up, cap) ==
    [op |-> "check", executor |-> executor, force |-> force, is_up |-> is_up,
     cap |-> cap, before |-> [checks |-> checks, store |-> store]]

\* one check of the page by either executor; only views takes force_screenshot
AttemptingCheck(executor, force) ==
    /\ calls > 0
    /\ \E o \in ProbeOutcomes(page.url), ms \in ResponseTimes :
        \E p \in {IF executor = "views" THEN ViewsProbe(o) ELSE CheckUrl(o)} :
        \E cap \in Captures(page, TRUE) :
        \E d \in DiffOutcomes(cfg.backend) :
        \E s \in {IF executor = "views"
                  THEN ViewsScreenshotStage(page, checks, store, names, force,
                                            p.is_up, cap, d)
                  ELSE CommandScreenshotStage(page, checks, store, names,
                                              p.is_up, cap, d)} :
        \E rows1 \in {Append(checks, NewRow(p, s, ms, now))} :
        \E a \in {IF executor = "views"
                  THEN ViewsAfterCreate(page, rows1, s.store, cfg.limit,
                                        "none", TRUE, TRUE)
                  ELSE CommandAfterCreate(page, rows1, s.store, cfg.limit,
                                          "none", TRUE, TRUE)} :
            /\ names' = names + 2
            /\ checks' = a.checks
            /\ store' = a.store
            /\ mails' = mails \cup a.mails
            /\ now' = now + 1
            /\ last' = Attempt(executor, force, p.is_up, cap)
    /\ calls' = calls - 1
    /\ UNCHANGED <<page, cfg, temps>>
    /\ UNCHANGED schedVars

NextAttempts ==
    \/ AttemptingCheck("views", FALSE)
    \/ AttemptingCheck("views", TRUE)
    \/ AttemptingCheck("command", FALSE)

\* a page with or without screenshots, whole or cropped, under either retention limit
InitAttempts ==
    /\ page \in {[NewPage EXCEPT !.screenshot_enabled = enabled,
                                 !.region_width_pct = region.w,
                                 !.region_height_pct = region.h] :
                     enabled \in BOOLEAN, region \in {WholePage, TopLeftQuarter}}
    /\ temps = 0
    /\ cfg \in {Deployment(limit, FALSE, "local", FALSE, BOOLEAN, FALSE) :
                    limit \in 1..MaxLimit}
    /\ calls = MaxAttempts
    /\ EmptyHistory

SpecAttempts == InitAttempts /\ [][NextAttempts]_vars

(***************************************************************************)
(* Checks of a page whose owner changes the alert settings between them.   *)
(***************************************************************************)
\* the bodies that set the alert threshold or switch the uptime notifications
AlertBodies ==
    {[k \in {"alertThreshold"} |-> Num(100 * thr)] : thr \in 1..MaxThreshold}
    \cup {[k \in {"notificationsEnabled"} |-> flag] : flag \in FlagValues}

\* the owner changes an alert setting of the page
AlertSettingsRequest ==
    /\ calls > 0
    /\ \E data \in AlertBodies :
           \E r \in {MonitorSiteSettings(page, data)} :
               /\ page' = r.page
               /\ last' = SettingsCall("owner", data, r.status)
    /\ calls' = calls - 1
    /\ UNCHANGED <<cfg, temps, checks, store, now, names, mails>>
    /\ UNCHANGED schedVars

NextStreak ==
    \/ AlertSettingsRequest
    \/ PerformSingleCheck
    \/ RunSingleCheck

\* a page of a user with an address, uptime notifications on, no screenshots
InitStreak ==
    /\ page \in {[NewPage EXCEPT !.user_email = "u1@example.com",
                                 !.notifications_enabled = TRUE,
                                 !.alert_threshold = thr] : thr \in 1..MaxThreshold}
    /\ temps = 0
    /\ cfg = Deployment(MaxLimit, FALSE, "local", FALSE, {FALSE}, FALSE)
    /\ calls = MaxStreakSteps
    /\ EmptyHistory

SpecStreak == InitStreak /\ [][NextStreak]_vars

(***************************************************************************)
(* Start of the background scheduler (pages/apps.py).  A string of argv is *)
(* a sequence of pieces chosen so that the name of a server is one piece:  *)
(* `prog in argv0` is "prog is a piece of argv0".                          *)
(***************************************************************************)
Word(w) == <<w>>

\* sys.argv[0] if sys.argv else "", and sys.argv[1] if len(sys.argv) > 1 else ""
Argv0(argv) == IF Len(argv) > 0 THEN argv[1] ELSE <<>>

Cmd(argv) == IF Len(argv) > 1 THEN argv[2] ELSE <<>>

\* _non_server_commands
NonServerCommands ==
    {"migrate", "makemigrations", "shell", "collectstatic", "createsuperuser",
     "test", "check", "inspectdb", "run_checks"}

ServerPrograms == {"gunicorn", "uvicorn", "daphne"}

\* is_dev_server: the reloader's child, or runserver --noreload
IsDevServer(argv, run_main) ==
    /\ Cmd(argv) = Word("runserver")
    /\ run_main = "true" \/ \E i \in DOMAIN argv : argv[i] = Word("--noreload")

\* is_prod_server: any(prog in argv0 for prog in ("gunicorn", "uvicorn", "daphne"))
IsProdServer(argv) ==
    \E prog \in ServerPrograms : \E i \in DOMAIN Argv0(argv) : Argv0(argv)[i] = prog

\* is_module_server: A and B or C
IsModuleServer(argv) ==
    \/ Len(argv) > 0 /\ argv[1] = Word("-m")
    \/ Len(argv) > 1 /\ \E prog \in ServerPrograms : argv[2] = Word(prog)

\* should_start
ShouldStart(argv, run_main) ==
    /\ IsDevServer(argv, run_main) \/ IsProdServer(argv) \/ IsModuleServer(argv)
    /\ ~\E c \in NonServerCommands : Cmd(argv) = Word(c)

\* the management commands explored: the listed ones, runserver and one more
ManagementCommands == NonServerCommands \cup {"runserver", "loaddata"}

\* the directories manage.py is started from
ProjectDirs == {<<>>, <<"/srv/", "daphne", "-site/">>}

\* the command lines explored: manage.py with a command, the servers started
\* directly or with python -m, and an embedding without argv
CommandLines ==
    {<<dir \o <<"manage.py">>, Word(c)>> : dir \in ProjectDirs, c \in ManagementCommands}
    \cup {<<dir \o <<"manage.py">>, Word("runserver"), Word("--noreload")>> :
              dir \in ProjectDirs}
    \cup {<<<<"/venv/bin/", prog>>, Word("config.asgi:application")>> :
              prog \in ServerPrograms}
    \cup {<<<<"/venv/lib/", "uvicorn", "/__main__.py">>, Word("config.asgi:application")>>,
          <<>>}

\* the process runs manage.py with a command other than runserver
NonServerManagementCommand(argv) ==
    /\ Len(argv) > 1
    /\ Argv0(argv)[Len(Argv0(argv))] = "manage.py"
    /\ \E c \in ManagementCommands \ {"runserver"} : Cmd(argv) = Word(c)

\* the threads that call PagesConfig.ready
Callers == 1..MaxReadyCalls

\* what last records of a step of ready: the caller and the value of should_start
ReadyStep(caller, step, should_start) ==
    [op |-> "ready", caller |-> caller, step |-> step, should_start |-> should_start]

\* PagesConfig.ready up to `if not should_start or PagesConfig._run_checks_started: return`
ReadyTest(c) ==
    /\ threads.callers[c] = "called"
    /\ \E should_start \in {ShouldStart(cfg.argv, cfg.RUN_MAIN)} :
           /\ threads' = [threads EXCEPT !.callers[c] =
                              IF ~should_start \/ ctl.run_checks_started
                              THEN "returned" ELSE "starting"]
           /\ last' = ReadyStep(c, "test", should_start)
    /\ UNCHANGED <<page, cfg, temps, checks, store, now, names, mails, calls,
                   pages, history, ctl, tasks>>

\* PagesConfig.ready from `PagesConfig._run_checks_started = True` to thread.start();
\* the thread runs _start_run_checks, which is call_command("run_checks", ...)
ReadyStart(c) ==
    /\ threads.callers[c] = "starting"
    /\ ctl' = [ctl EXCEPT !.run_checks_started = TRUE]
    /\ threads' = [threads EXCEPT !.callers[c] = "returned", !.run_checks = @ + 1]
    /\ last' = ReadyStep(c, "start", TRUE)
    /\ UNCHANGED <<page, cfg, temps, checks, store, now, names, mails, calls,
                   pages, history, tasks>>

NextReady == \E c \in Callers : ReadyTest(c) \/ ReadyStart(c)

\* a process with its command line and environment; no thread has been started
InitReady ==
    /\ page = NewPage
    /\ temps = 0
    /\ cfg \in [argv : CommandLines, RUN_MAIN : {"", "true"}]
    /\ ctl = [pc |-> "off", round |-> 0, now |-> 0, once |-> FALSE,
              run_checks_started |-> FALSE]
    /\ threads = [callers |-> [c \in Callers |-> "called"], run_checks |-> 0]
    /\ pages = <<>>
    /\ history = <<>>
    /\ tasks = <<>>
    /\ calls = 0
    /\ checks = <<>>
    /\ store = {}
    /\ now = 1
    /\ names = 1
    /\ mails = {}
    /\ last = NoInvocation

SpecReady == InitReady /\ [][NextReady]_vars

(***************************************************************************)
(* Vocabulary of the properties.                                           *)
(***************************************************************************)
\* row j was recorded no later than row k
AtOrBefore(j, k) == checks[j].checked_at <= checks[k].checked_at

Before(j, k) == checks[j].checked_at < checks[k].checked_at

\* a notification of the given kind was handed to the transport for check k
Sent(kind, k) == \E m \in mails : m.kind = kind /\ m.check = k

\* the length of the run of down results that ends with row k
StreakAt(k) ==
    Cardinality({j \in DOMAIN checks :
                    /\ AtOrBefore(j, k)
                    /\ \A i \in DOMAIN checks :
                           (AtOrBefore(j, i) /\ AtOrBefore(i, k)) => ~checks[i].is_up})

\* the number of down results after the last up result
TrailingFailures ==
    Cardinality({j \in DOMAIN checks :
                    \A i \in DOMAIN checks : AtOrBefore(j, i) => ~checks[i].is_up})

\* row k is up and the row recorded just before it is down
RecoveryDue(k) ==
    /\ checks[k].is_up
    /\ \E j \in DOMAIN checks :
           /\ Before(j, k)
           /\ \A i \in DOMAIN checks : Before(i, k) => AtOrBefore(i, j)
           /\ ~checks[j].is_up

AlertSettings ==
    page.notifications_enabled /\ page.alert_threshold > 0 /\ page.user_email # ""

(***************************************************************************)
(* C1..C4: downtime and recovery alerts, under SpecAlert.                  *)
(***************************************************************************)
\* C1: with notifications enabled, a threshold T > 0 and an owner email, a downtime
\* notification is sent for exactly those checks that are down and make the failure
\* streak T long: once per streak, never past T, and again in a later streak
C1_DowntimeOncePerStreak ==
    AlertSettings =>
        \A k \in DOMAIN checks :
            Sent("down", k) <=> (~checks[k].is_up /\ StreakAt(k) = page.alert_threshold)

\* two streaks alerted, with an up result between them, and a streak that went
\* past the threshold without a second alert
C1_Witness ==
    /\ AlertSettings
    /\ \E k1, k2, u \in DOMAIN checks :
           /\ Sent("down", k1) /\ Sent("down", k2)
           /\ Before(k1, u) /\ Before(u, k2) /\ checks[u].is_up
    /\ \E k \in DOMAIN checks :
           ~checks[k].is_up /\ StreakAt(k) > page.alert_threshold /\ ~Sent("down", k)

\* C2: _consecutive_failures is the number of down results counted back from the most
\* recent one to the first up result: 0 when the latest is up, 0 with no results
C2_ConsecutiveFailures ==
    /\ ConsecutiveFailures(checks) = TrailingFailures
    /\ checks = <<>> => ConsecutiveFailures(checks) = 0
    /\ (checks # <<>> /\ checks[Len(checks)].is_up) => ConsecutiveFailures(checks) = 0

\* two trailing failures after an up result that itself follows a failure
C2_Witness ==
    /\ ConsecutiveFailures(checks) = 2
    /\ \E u, f \in DOMAIN checks : checks[u].is_up /\ ~checks[f].is_up /\ Before(f, u)

C4_NoDowntimeAlertWhenDisabled ==
    (~page.notifications_enabled \/ page.alert_threshold <= 0 \/ page.user_email = "") =>
        /\ \A k \in DOMAIN checks : ~Sent("down", k)
        /\ ~last.raised
        /\ ~last.handlers_raised

\* the threshold is reached on a page whose owner has no email
C4_Witness ==
    /\ page.notifications_enabled /\ page.alert_threshold > 0 /\ page.user_email = ""
    /\ \E k \in DOMAIN checks : ~checks[k].is_up /\ StreakAt(k) = page.alert_threshold
    /\ last.executor # "none"

(***************************************************************************)
(* C5, C6: the visual-change alert and mail failures, under SpecMail.      *)
(***************************************************************************)
\* C5: a visual-change notification is sent for a check only if the page has
\* change_notifications_enabled and screenshot_enabled and the check's diff score is
\* non-null and greater than 0; with an owner email these conditions also suffice,
\* whatever notifications_enabled is and whatever the uptime decision was
C5_ChangeAlertOnlyOnPositiveScore ==
    \A k \in DOMAIN checks :
        Sent("change", k) <=>
            /\ page.change_notifications_enabled
            /\ page.screenshot_enabled
            /\ checks[k].diff_score # None
            /\ checks[k].diff_score[1] > 0
            /\ page.user_email # ""

\* a change is notified on a page with uptime notifications off, and a check of
\* the same page with score 0 is not notified
C5_Witness ==
    /\ ~page.notifications_enabled
    /\ \E k \in DOMAIN checks : Sent("change", k)
    /\ \E k \in DOMAIN checks : checks[k].diff_score = Some(0) /\ ~Sent("change", k)

\* the transport failed for a mail of the latest check
MailFailed == \E m \in mails : m.check = last.created /\ ~m.delivered

\* C6: when the mail transport fails, the handlers return normally, the executor does
\* not raise to its caller, and the row it persisted is as it was created
C6_MailFailureSwallowed ==
    MailFailed =>
        /\ ~last.handlers_raised
        /\ ~last.raised
        /\ checks[last.created] = last.before.checks[last.created]

\* the scheduler's executor had a mail fail, and mails of all three kinds have failed
C6_Witness ==
    /\ MailFailed
    /\ last.executor = "command"
    /\ {m.kind : m \in {n \in mails : ~n.delivered}} = {"down", "recovered", "change"}

(***************************************************************************)
(* C7..C10: retention and the executor, under Spec.                        *)
(***************************************************************************)
\* the rows with a screenshot path
Bearing(rows) == {k \in DOMAIN rows : rows[k].screenshot_path # NoPath}

\* the n most recent of the rows in ks
Newest(rows, ks, n) ==
    {k \in ks : Cardinality({j \in ks : rows[j].checked_at > rows[k].checked_at}) < n}

\* the non-empty artifact paths of a row, and the thumbnail of its screenshot
Artifacts(r) ==
    ({r.screenshot_path, r.crop_path, r.diff_path} \ {NoPath})
    \cup (IF r.screenshot_path # NoPath THEN {ThumbRel(r.screenshot_path)} ELSE {})

PathsOf(r) == {r.screenshot_path, r.crop_path, r.diff_path} \ {NoPath}

\* C7: after cleanup_old_screenshots with limit N on count artifact-bearing rows: if
\* count > N the count - N oldest have empty paths and their files are gone, and the
\* N newest keep non-empty paths whose files are in the store; else nothing changed
C7_PrunePostcondition ==
    last.cleanup =>
        LET pre == last.before.checks
            kept == Newest(pre, Bearing(pre), cfg.limit)
            pruned == Bearing(pre) \ kept
        IN  IF Cardinality(Bearing(pre)) > cfg.limit
            THEN /\ Cardinality(pruned) = Cardinality(Bearing(pre)) - cfg.limit
                 /\ \A k \in pruned :
                        /\ PathsOf(checks[k]) = {}
                        /\ Artifacts(pre[k]) \cap store = {}
                 /\ \A k \in kept :
                        /\ checks[k].screenshot_path # NoPath
                        /\ PathsOf(checks[k]) \subseteq store
            ELSE checks = pre /\ store = last.before.store

\* C8: the number of rows with a screenshot path never exceeds the limit
C8_AtMostLimitScreenshots == Cardinality(Bearing(checks)) <= cfg.limit

\* the retention pass found more than N rows and left N
C8_Witness ==
    /\ last.cleanup
    /\ Cardinality(Bearing(last.before.checks)) > cfg.limit
    /\ Cardinality(Bearing(checks)) = cfg.limit

NonArtifactFields(r) ==
    <<r.checked_at, r.is_up, r.status_code, r.response_time_ms, r.message, r.diff_score>>

\* C9: pruning deletes no row, leaves every row's timestamp, up flag, status code,
\* response time, message and diff score alone, and changes nothing in a row that
\* had no screenshot path
C9_PruneKeepsRowsAndHistory ==
    last.cleanup =>
        /\ Len(checks) = Len(last.before.checks)
        /\ \A k \in DOMAIN checks :
               /\ NonArtifactFields(checks[k]) = NonArtifactFields(last.before.checks[k])
               /\ k \notin Bearing(last.before.checks) => checks[k] = last.before.checks[k]

\* a row with a diff score was pruned
C9_Witness ==
    /\ last.cleanup
    /\ \E k \in DOMAIN checks :
           /\ checks[k] # last.before.checks[k]
           /\ checks[k].diff_score # None

\* C10: every invocation of an executor appends exactly one row and does not raise
\* to its caller, and a probe failure gives a down row with a non-empty message
C10_OneRowPerInvocation ==
    /\ Len(checks) = MaxShotChecks - calls
    /\ ~last.raised
    /\ \A k \in DOMAIN checks : ~checks[k].is_up => checks[k].message # ""

(***************************************************************************)
(* C11: the steps after the INSERT, under SpecFault.                       *)
(***************************************************************************)
\* C11: after persisting the row the executor enters retention pruning (only when the
\* row has a screenshot path), then the downtime/recovery decision, then the
\* visual-change decision, in that order, whichever of them raises, and the
\* persisted row stays as it was created; in both executors
C11_StepsIsolated ==
    last.created # 0 =>
        /\ last.steps = AllSteps(last.before.checks)
        /\ Len(checks) = Len(last.before.checks)
        /\ checks[last.created] = last.before.checks[last.created]

\* the same for the request-triggered executor alone
C11_ViewsStepsIsolated == last.executor = "views" => C11_StepsIsolated

(***************************************************************************)
(* C12..C15: the rounds of the scheduler, under SpecRounds and FairRounds. *)
(***************************************************************************)
\* C12: an exception raised inside one page's check neither aborts the round nor ends
\* the loop: no other check of the round is cancelled and the command goes on
C12_RoundSurvivesFailure ==
    /\ ctl.pc \notin {"cancelling", "crashed"}
    /\ \A i \in DOMAIN tasks : tasks[i].pc # "cancelled"

\* C13: the loop is past the gather (about to sleep, sleeping, or starting the next
\* round) only when every check dispatched in the round has completed, and every
\* check in progress belongs to the current round
C13_RoundsJoined ==
    /\ ctl.pc \in {"after", "sleeping", "loop", "exited", "crashed"} =>
           \A i \in DOMAIN tasks : Settled(tasks[i])
    /\ \A i \in DOMAIN tasks : tasks[i].round = ctl.round

\* the loop sleeps after a second round of two checks, one of which found its site down
C13_Witness ==
    /\ ctl.pc = "sleeping"
    /\ ctl.round > 1
    /\ Len(tasks) = 2
    /\ \E i \in DOMAIN tasks : ~tasks[i].p.is_up

\* the page has no check row, or at least its check_interval minutes lie between the
\* timestamp of its most recent row and the given time
IsDue(id, at) ==
    IF history[id] = <<>> THEN TRUE
    ELSE \A k \in DOMAIN history[id] :
             (\A j \in DOMAIN history[id] :
                  history[id][j].checked_at <= history[id][k].checked_at)
             => at - history[id][k].checked_at >= pages[id].check_interval

\* C14: the round that starts dispatches one check for each registered page that is
\* due at the round's start and none for a page that is not
C14_DispatchedIffDue ==
    [][(ctl.pc = "loop" /\ ctl'.pc = "gather") =>
           \A id \in DOMAIN pages :
               Cardinality({i \in DOMAIN tasks' : tasks'[i].page.id = id})
                   = IF IsDue(id, now) THEN 1 ELSE 0]_vars

\* a page that was checked in the first round and skipped since is dispatched again
C14_Witness ==
    /\ ctl.pc = "gather"
    /\ ctl.round > 2
    /\ \E id \in DOMAIN pages :
           /\ Len(history[id]) = 1
           /\ \E i \in DOMAIN tasks : tasks[i].page.id = id

\* C15: in continuous mode every registered page gets a check row again after its
\* interval: each page comes to have a second row
C15_EveryPageRechecked == \A id \in PageIds : <>(Len(history[id]) >= 2)

\* the same when every registered URL has a scheme
C15_RecheckedWhenNoCheckRaises ==
    (\A id \in PageIds : pages[id].url = GoodUrl) => C15_EveryPageRechecked

(***************************************************************************)
(* C16, C17: concurrent checks, under SpecOnce.                            *)
(***************************************************************************)
\* the number of executor invocations in progress for a page
Running(id) ==
    Cardinality({i \in DOMAIN tasks : tasks[i].page.id = id /\ ~Settled(tasks[i])})
    + threads[id].register + threads[id].page_list

\* C16: no two executions of the executor for the same page are in progress at the
\* same time, whether started by a round, by a registration or by a page-list request
C16_OneCheckPerPageAtATime == \A id \in PageIds : Running(id) <= 1

\* the objects stored under a page's directory
Namespace(st, id) == {o \in st : o[1] = id}

\* C17: the rows and the stored objects of a page change only in a step of a check
\* of that page, however the checks of different pages interleave
C17_ChecksTouchOwnPageOnly ==
    [][\A q \in PageIds :
           (history'[q] # history[q] \/ Namespace(store', q) # Namespace(store, q))
           => \/ \E i \in DOMAIN tasks :
                     /\ tasks[i].page.id = q
                     /\ i \in DOMAIN tasks'
                     /\ tasks'[i] # tasks[i]
              \/ threads'[q] # threads[q]]_vars

\* checks of two pages are in progress together and both pages have stored objects
C17_Witness ==
    /\ \E i, j \in DOMAIN tasks :
           /\ tasks[i].page.id # tasks[j].page.id
           /\ tasks[i].pc = "create"
           /\ tasks[j].pc = "create"
    /\ \A id \in PageIds : Namespace(store, id) # {}

\* the row the latest invocation inserted, as it was inserted
Inserted == last.before.checks[last.created]

\* C18: a check that captures and inserts a row with score 0 leaves neither the
\* new full screenshot nor the new crop in the store and its row carries the
\* previous row's screenshot and crop paths and no diff path; with any other
\* score the row carries the paths of the files the capture stored
C18_ZeroScoreReusesPaths ==
    [][(names' # names /\ last'.created > 0) =>
          LET row == last'.before.checks[last'.created]
              st == last'.before.store
              full == Path(page.id, names, ".jpg")
              crop == CropRel(full)
          IN  IF row.diff_score = Some(0)
              THEN /\ full \notin st
                   /\ crop \notin st
                   /\ row.screenshot_path = checks[Len(checks)].screenshot_path
                   /\ row.crop_path = checks[Len(checks)].crop_path
                   /\ row.diff_path = NoPath
              ELSE /\ row.screenshot_path = (IF full \in st THEN full ELSE NoPath)
                   /\ row.crop_path = (IF crop \in st THEN crop ELSE NoPath)]_vars

\* the same for the score-0 half alone
C18_ZeroScoreDiscards ==
    [][(names' # names /\ last'.created > 0
          /\ last'.before.checks[last'.created].diff_score = Some(0)) =>
          LET row == last'.before.checks[last'.created]
              st == last'.before.store
              full == Path(page.id, names, ".jpg")
          IN  /\ full \notin st
              /\ CropRel(full) \notin st
              /\ row.screenshot_path = checks[Len(checks)].screenshot_path
              /\ row.crop_path = checks[Len(checks)].crop_path
              /\ row.diff_path = NoPath]_vars

\* C19: after a check whose row has score 0 the store holds no object created
\* by that check (the two names it drew are names - 2 and names - 1)
C19_UnchangedPageStoresNothing ==
    (last.created > 0 /\ Inserted.diff_score = Some(0)) =>
        \A o \in store : o[2] \notin {names - 2, names - 1}

Called(op) == "op" \in DOMAIN last /\ last.op = op

\* C21: compute_diff never raises, and with an empty path, a path missing
\* from the store or a failing step it returns the empty diff path and no score
C21_ComputeDiffNeverRaises ==
    Called("compute_diff") =>
        /\ ~last.raised
        /\ (\/ last.prev = NoPath \/ last.curr = NoPath
            \/ last.prev \notin last.before \/ last.curr \notin last.before
            \/ last.outcome # "hashed")
           => (last.diff = NoPath /\ last.score = None)

\* the same on the backends whose exists() does not re-raise
C21_NeverRaisesOffS3 == cfg.backend # "s3" => C21_ComputeDiffNeverRaises

\* the same for what is returned, whenever compute_diff returns
C21_EmptyOnFailure ==
    (Called("compute_diff") /\ ~last.raised) =>
        ((\/ last.prev = NoPath \/ last.curr = NoPath
          \/ last.prev \notin last.before \/ last.curr \notin last.before
          \/ last.outcome # "hashed")
         => (last.diff = NoPath /\ last.score = None))

C25_ExistsNeverRaises ==
    Called("exists") =>
        /\ ~last.raised
        /\ last.reply = "error" => ~last.value

\* the same on the backends other than S3
C25_NeverRaisesOffS3 == cfg.backend # "s3" => C25_ExistsNeverRaises

(***************************************************************************)
(* C22, C23, C26, C28: the rows and paths of the executors, under Spec.    *)
(***************************************************************************)
\* C22: a row is inserted with a diff score only if the page had a previous row
\* with a diff source that was in the store, the probe was up, this check
\* captured a screenshot and the two images were compared; a first check, a
\* down check and a check without a captured screenshot insert no score
C22_ScoreOnlyAfterComparison ==
    [][(last'.created > 0 /\ last' # last) =>
          LET row == last'.before.checks[last'.created]
          IN  /\ row.diff_score # None =>
                     /\ checks # <<>>
                     /\ checks[Len(checks)].screenshot_path # NoPath
                     /\ StorageExists(store, OrPath(checks[Len(checks)].crop_path,
                                                    checks[Len(checks)].screenshot_path))
                     /\ row.is_up
                     /\ names' = names + 2
                     /\ \/ row.diff_score = Some(0)
                        \/ /\ row.screenshot_path = Path(page.id, names, ".jpg")
                           /\ StorageExists(last'.before.store,
                                            OrPath(row.crop_path, row.screenshot_path))
              /\ (checks = <<>> \/ ~row.is_up \/ row.screenshot_path = NoPath)
                     => row.diff_score = None]_vars

\* a check compared its capture with the previous one, and later a check whose
\* previous row names a file that is no longer stored inserted no score
C22_Witness ==
    /\ last.created = 3
    /\ last.before.checks[2].diff_score # None
    /\ last.before.checks[2].screenshot_path # NoPath
    /\ ~StorageExists(last.before.store, last.before.checks[2].screenshot_path)
    /\ Inserted.screenshot_path # NoPath
    /\ Inserted.diff_score = None

\* the objects in st that carry one of the two names drawn at n and n + 1
NamedAt(st, n) == {o \in st : o[2] \in {n, n + 1}}

\* C23: when a check attempts a capture and the store takes nothing from it
\* (storage.save of the full screenshot raised, or the rendering before it),
\* the check still inserts its row, the row has empty screenshot, crop and
\* diff paths and no score, and no row names the path that was not saved
C23_FailedSaveLeavesNoReference ==
    [][(names' = names + 2 /\ NamedAt(store', names) = {}) =>
          /\ last'.created = Len(checks) + 1
          /\ ~last'.raised
          /\ LET row == last'.before.checks[last'.created]
             IN  /\ row.screenshot_path = NoPath
                 /\ row.crop_path = NoPath
                 /\ row.diff_path = NoPath
                 /\ row.diff_score = None
          /\ \A k \in DOMAIN checks' :
                 /\ checks'[k].screenshot_path # Path(page.id, names, ".jpg")
                 /\ checks'[k].crop_path # Path(page.id, names, "_crop.jpg")]_vars

\* after a stored screenshot, an up check whose capture stored nothing
C23_Witness ==
    /\ last.created = 2
    /\ last.before.checks[1].screenshot_path # NoPath
    /\ Inserted.is_up
    /\ NamedAt(store, names - 2) = {}
    /\ Inserted.screenshot_path = NoPath

\* the non-empty artifact paths of a row
RowPaths(row) == {row.screenshot_path, row.crop_path, row.diff_path} \ {NoPath}

\* C26: every non-empty screenshot, crop and diff path of a row of the page is
\* a relative path whose first segment is the page's id, as the row was
\* inserted and as it is now, reused paths included
C26_PathsUnderOwnPage ==
    /\ \A k \in DOMAIN checks : \A rel \in RowPaths(checks[k]) :
           Len(rel) = 3 /\ rel[1] = page.id
    /\ \A k \in DOMAIN last.before.checks : \A rel \in RowPaths(last.before.checks[k]) :
           Len(rel) = 3 /\ rel[1] = page.id

\* a row with a diff path, then a row that reuses a screenshot and a crop path
C26_Witness ==
    /\ last.created = 3
    /\ last.before.checks[2].diff_path # NoPath
    /\ Inserted.diff_score = Some(0)
    /\ Inserted.screenshot_path # NoPath
    /\ Inserted.crop_path # NoPath

\* the same with two pages, under SpecOnce
C26_PathsUnderOwnPageOfTwo ==
    \A id \in PageIds : \A k \in DOMAIN history[id] : \A rel \in RowPaths(history[id][k]) :
        Len(rel) = 3 /\ rel[1] = id

\* the derivative of a base path "<dir>/<stem>.jpg" with the given suffix
Derived(base, suffix) == Path(base[1], base[2], suffix)

\* C28: the crop and the diff path of a row are the row's screenshot path with
\* the suffix _crop and _diff in place of the extension, and every thumbnail
\* in the store is named after a base path in the same way
C28_DerivativesNamedFromBase ==
    /\ \A k \in DOMAIN last.before.checks :
           LET row == last.before.checks[k]
           IN  /\ row.crop_path # NoPath =>
                      row.crop_path = Derived(row.screenshot_path, "_crop.jpg")
               /\ row.diff_path # NoPath =>
                      row.diff_path = Derived(row.screenshot_path, "_diff.jpg")
    /\ \A o \in store : o[3] = "_thumb.jpg" => o = ThumbRel(Path(o[1], o[2], ".jpg"))

\* the same for the crop and the thumbnail alone
C28_CropAndThumbNamedFromBase ==
    /\ \A k \in DOMAIN last.before.checks :
           LET row == last.before.checks[k]
           IN  row.crop_path # NoPath =>
                   row.crop_path = Derived(row.screenshot_path, "_crop.jpg")
    /\ \A o \in store : o[3] = "_thumb.jpg" => o = ThumbRel(Path(o[1], o[2], ".jpg"))

(***************************************************************************)
(* C27: serving artifacts, under SpecServe.                                *)
(***************************************************************************)
\* the account owns the page with the given id
Owns(user, id) == id \in DOMAIN pages /\ pages[id].user = user

\* C27: a response carries an artifact only for an authenticated requester
\* who owns the page numbered by the first segment of the path, and the
\* artifact is one of that page; a path with a ".." segment, without parts
\* or with a first segment that is no number is turned away; whatever the
\* store holds, no request of an account that does not own a page is
\* answered with an artifact of that page
C27_OnlyOwnerIsServed ==
    /\ Called("serve") =>
           /\ last.artifact # NoPath =>
                  /\ last.user # Anonymous
                  /\ last.status \in {200, 302}
                  /\ \A i \in DOMAIN last.path : last.path[i] # ".."
                  /\ last.path # <<>>
                  /\ IntOfSegment(last.path[1]) # None
                  /\ Owns(last.user, IntOfSegment(last.path[1])[1])
                  /\ last.artifact[1] = IntOfSegment(last.path[1])[1]
           /\ (\/ \E i \in DOMAIN last.path : last.path[i] = ".."
               \/ last.path = <<>>
               \/ IntOfSegment(last.path[1]) = None)
              => (last.status \in {401, 404} /\ last.artifact = NoPath)
    /\ \A user \in Users \cup {Anonymous}, segs \in RequestPaths,
          reply \in BackendReplies(cfg.backend), fetch_ok \in BOOLEAN :
           LET r == ServeScreenshot(user, segs, pages, store, cfg.backend, reply, fetch_ok)
           IN  r.artifact # NoPath => Owns(user, r.artifact[1])

\* an account asked for a stored file of a page of the other account and got 403
C27_Witness ==
    /\ Called("serve")
    /\ last.status = 403
    /\ ObjectAt(cfg.backend, last.path) \in store
    /\ \E user \in Users : user # last.user /\ Owns(user, ObjectAt(cfg.backend, last.path)[1])

(***************************************************************************)
(* C29: deleting a page, under SpecDelete.                                 *)
(***************************************************************************)
\* the stored paths a row names, the thumbnail of its screenshot included
RowArtifacts(row) ==
    RowPaths(row) \cup (IF row.screenshot_path # NoPath
                        THEN {ThumbRel(row.screenshot_path)} ELSE {})

\* C29: the artifacts are deleted while the page and its rows are still there,
\* and when the page and its rows go no artifact named by a row of the page
\* is in the store
C29_ArtifactsGoBeforeRows ==
    [][\A id \in PageIds :
           /\ (threads[id].delete = "no" /\ threads'[id].delete = "artifacts") =>
                  /\ pages' = pages
                  /\ history' = history
                  /\ \A k \in DOMAIN history[id] :
                         RowArtifacts(history[id][k]) \cap store' = {}
           /\ (id \in DOMAIN pages /\ id \notin DOMAIN pages') =>
                  /\ threads[id].delete = "artifacts"
                  /\ history'[id] = <<>>
                  /\ \A k \in DOMAIN history[id] :
                         RowArtifacts(history[id][k]) \cap store' = {}]_vars

\* the same for the rows that monitor_site_delete read
C29_ArtifactsOfRowsReadGo ==
    [][\A id \in PageIds :
           /\ (threads[id].delete = "no" /\ threads'[id].delete = "artifacts") =>
                  /\ pages' = pages
                  /\ history' = history
                  /\ \A k \in DOMAIN history[id] :
                         RowArtifacts(history[id][k]) \cap store' = {}
           /\ (id \in DOMAIN pages /\ id \notin DOMAIN pages') =>
                  /\ threads[id].delete = "artifacts"
                  /\ history'[id] = <<>>
                  /\ \A k \in 1..threads[id].seen :
                         RowArtifacts(history[id][k]) \cap store' = {}]_vars

(***************************************************************************)
(* C30: registering pages, under SpecRegister.                             *)
(***************************************************************************)
\* the request creates the page the poster asked for and checks it, and no other
\* page, at most once
CreatesAndChecksOnce(r) ==
    /\ r.page_id \notin DOMAIN pages
    /\ DOMAIN pages' = DOMAIN pages \cup {r.page_id}
    /\ \A id \in DOMAIN pages : pages'[id] = pages[id] /\ history'[id] = history[id]
    /\ pages'[r.page_id].user = r.user
    /\ pages'[r.page_id].url = r.url
    /\ Len(history'[r.page_id]) = (IF r.status = 201 THEN 1 ELSE 0)
    /\ names' \in {names, names + 2}

\* the request changes nothing
CreatesNothing ==
    /\ pages' = pages
    /\ history' = history
    /\ store' = store
    /\ names' = names
    /\ mails' = mails

WithinBounds(pg) ==
    /\ pg.check_interval \in MinCheckInterval..MaxCheckInterval
    /\ pg.alert_threshold \in MinAlertThreshold..MaxAlertThreshold
    /\ \A f \in DOMAIN RegionFields : pg[RegionFields[f].attr] \in 0..100

\* the bounds of the value of a key, in hundredths
BoundsOf(key) ==
    CASE key = "checkInterval" -> (MinCheckInterval * 100)..(MaxCheckInterval * 100)
      [] key = "alertThreshold" -> (MinAlertThreshold * 100)..(MaxAlertThreshold * 100)
      [] OTHER -> 0..100

\* the number a value is or spells, in hundredths, if it is or spells one
NumberOf(x) ==
    CASE x.kind = "number" -> Some(x.h)
      [] x.kind = "string" /\ x.s = "5" -> Some(500)
      [] x.kind = "string" /\ x.s = "0.5" -> Some(50)
      [] OTHER -> None

\* the body carries a non-numeric or an out-of-range value for a bounded setting
CarriesRefusedValue(data) ==
    \E key \in DOMAIN data \cap {"checkInterval", "alertThreshold",
                                  "regionWidthPct", "regionHeightPct"} :
        \/ NumberOf(data[key]) = None
        \/ NumberOf(data[key])[1] \notin BoundsOf(key)

\* C31: after any sequence of settings updates the check interval is in 1..60,
\* the alert threshold in 1..10 and each region fraction in [0,1]; an update
\* carrying an out-of-range or non-numeric value is rejected and leaves every
\* stored field unchanged
C31_OutOfRangeRejected ==
    [][/\ WithinBounds(page')
       /\ (last'.who = "owner" /\ CarriesRefusedValue(last'.data)) =>
              (last'.status # 200 /\ page' = page)]_vars

\* the stored settings stay within their bounds, and a request that is refused
\* changes no stored field
C31_StoredWithinBounds ==
    [][/\ WithinBounds(page')
       /\ last'.status # 200 => page' = page]_vars

\* a request is refused for its alert threshold after its check interval was
\* accepted, and the stored check interval is the old one
C31_RefusedAfterAccepted ==
    /\ Called("settings")
    /\ last.status = 400
    /\ DOMAIN last.data = {"checkInterval", "alertThreshold"}
    /\ last.data["checkInterval"] = Num(6000)
    /\ page.check_interval # 60

(***************************************************************************)
(* C32: the two modes of the command, under SpecRounds.                    *)
(***************************************************************************)
\* the command has left handle(): it returned after the break or an exception
\* of asyncio.run ended it
Exited == ctl.pc \in {"exited", "crashed"}

\* C32: in run-once mode the scheduler executes exactly one round and then
\* exits without sleeping; in continuous mode it never exits on its own
C32_OnceExitsContinuousRuns ==
    /\ ctl.once => /\ ctl.round <= 1
                   /\ ctl.pc # "sleeping"
                   /\ Exited => ctl.round = 1
    /\ ~ctl.once => ~Exited

\* the run-once half, and in continuous mode the loop is never left by its break
C32_OnceRunsOneRound ==
    /\ ctl.once => /\ ctl.round <= 1
                   /\ ctl.pc # "sleeping"
                   /\ Exited => ctl.round = 1
    /\ ~ctl.once => ctl.pc # "exited"

\* continuous mode is only left through a check that raised
C32_LeftOnlyByRaisingCheck ==
    (~ctl.once /\ Exited) => \E i \in DOMAIN tasks : tasks[i].pc = "raised"

(***************************************************************************)
(* C33: the images compared, under SpecRegion.                             *)
(***************************************************************************)
\* the path names a region crop
IsCrop(rel_path) == rel_path[3] = "_crop.jpg"

\* C33: whenever a diff is computed the two images compared are of the same
\* kind, crop with crop or full screenshot with full screenshot
C33_SameKindCompared ==
    (Called("check") /\ last.compared # None) =>
        (IsCrop(last.compared[1].prev) <=> IsCrop(last.compared[1].curr))

\* as long as every row with a screenshot has a crop exactly when the check
\* at hand produces one, the images compared are of the same kind
C33_SameKindWhileCropsAgree ==
    (/\ Called("check")
     /\ last.compared # None
     /\ \A k \in DOMAIN last.before.checks :
            last.before.checks[k].screenshot_path # NoPath =>
                ((last.before.checks[k].crop_path # NoPath)
                     <=> IsCrop(last.compared[1].curr)))
    => (IsCrop(last.compared[1].prev) <=> IsCrop(last.compared[1].curr))

(***************************************************************************)
(* C34: transient local copies, under SpecCopies.                          *)
(***************************************************************************)
\* C34: on a backend without direct filesystem access every transient copy
\* obtained through local_path has been removed when the operation that
\* obtained it returns: no copy is outstanding between operations
C34_NoCopiesOutstanding ==
    cfg.backend # "local" => temps = 0

\* the local backend hands out the stored file itself and leaves no copy
C34_NoCopiesOnLocalDisk ==
    cfg.backend = "local" => temps = 0

\* on the bucket backends no caller removes a copy: everything created stays
C34_CopiesAreNeverRemoved ==
    [][temps' >= temps /\ last'.removed = 0]_vars

(***************************************************************************)
(* C35: serving under the storage flags, under SpecFlags.                  *)
(***************************************************************************)
\* C35: for every combination of the flags, when the internal-gateway backend
\* is the selected store the bytes are streamed and no redirect is returned,
\* and a redirect is returned only when the generic object-store backend is
\* the selected store
C35_ServedAsTheStoreRequires ==
    Called("serve") =>
        /\ cfg.backend = "seaweedfs" => last.status # 302
        /\ (cfg.backend = "seaweedfs" /\ last.status = 200) => last.streamed
        /\ last.status = 302 => cfg.backend = "s3"

\* the same when at most one of the two flags is set
C35_ServedAsTheStoreRequiresOneFlag ==
    (Called("serve") /\ ~(cfg.flags.USE_SEAWEEDFS_STORAGE /\ cfg.flags.USE_S3_STORAGE)) =>
        /\ cfg.backend = "seaweedfs" => last.status # 302
        /\ (cfg.backend = "seaweedfs" /\ last.status = 200) => last.streamed
        /\ last.status = 302 => cfg.backend = "s3"

\* with both flags set the redirect of the gateway store leads to the URL that
\* was requested
C35_RedirectsToItself ==
    (Called("serve") /\ last.status = 302 /\ cfg.backend = "seaweedfs") =>
        (last.location.host = "self" /\ last.location.path = ObjectAt(cfg.backend, last.path))

(***************************************************************************)
(* C36: the rows and the store after the retention pass, under Spec.       *)
(***************************************************************************)
\* C36: every non-empty screenshot path and crop path held by a check row
\* refers to an object that is in the store
C36_RowPathsAreStored ==
    \A k \in DOMAIN checks :
        /\ checks[k].screenshot_path # NoPath => checks[k].screenshot_path \in store
        /\ checks[k].crop_path # NoPath => checks[k].crop_path \in store

\* the same as long as no check of the page had a zero score
C36_StoredWhenNoPathIsReused ==
    (\A k \in DOMAIN checks : checks[k].diff_score # Some(0)) =>
        \A k \in DOMAIN checks :
            /\ checks[k].screenshot_path # NoPath => checks[k].screenshot_path \in store
            /\ checks[k].crop_path # NoPath => checks[k].crop_path \in store

(***************************************************************************)
(* C37: the rows of failed probes, under SpecAttempts.                     *)
(***************************************************************************)
\* a row without any trace of a capture
Bare(row) ==
    /\ row.screenshot_path = NoPath
    /\ row.crop_path = NoPath
    /\ row.diff_path = NoPath
    /\ row.diff_score = None

\* C37: a check row marked down has an empty screenshot path, crop path and
\* diff path and a null diff score, whether or not the screenshot was forced
C37_DownRowsAreBare ==
    \A k \in DOMAIN checks : ~checks[k].is_up => Bare(checks[k])

\* a forced check of a page with screenshots found the site down, the renderer
\* being ready to deliver, right after a check that stored a screenshot
C37_Witness ==
    /\ Called("check") /\ last.executor = "views" /\ last.force
    /\ ~last.is_up /\ last.cap.ok
    /\ page.screenshot_enabled
    /\ Len(checks) >= 2
    /\ ~checks[Len(checks)].is_up /\ Bare(checks[Len(checks)])
    /\ checks[Len(checks) - 1].screenshot_path # NoPath

(***************************************************************************)
(* C38: the baseline of the comparison, under SpecAttempts.                *)
(***************************************************************************)
\* the check that has just run found rows, and the most recent of them had no
\* screenshot
LatestRowHadNoScreenshot ==
    /\ Called("check")
    /\ last.before.checks # <<>>
    /\ LET prev == First(OrderByCheckedAtDesc(last.before.checks,
                                              DOMAIN last.before.checks))
       IN  last.before.checks[prev[1]].screenshot_path = NoPath

\* the check that has just run took a screenshot
TookScreenshot ==
    /\ last.is_up /\ last.cap.ok
    /\ page.screenshot_enabled \/ (last.executor = "views" /\ last.force)

\* the row of the check that has just run
NewCheck == checks[Len(last.before.checks) + 1]

\* C38: when the most recent row has an empty screenshot path, the new check has
\* a null diff score and an empty diff path, and the screenshot it took is its
\* own and is in the store, whatever older rows hold
C38_BaselineIsLatestRow ==
    LatestRowHadNoScreenshot =>
        /\ NewCheck.diff_score = None
        /\ NewCheck.diff_path = NoPath
        /\ TookScreenshot =>
               /\ NewCheck.screenshot_path # NoPath
               /\ NewCheck.screenshot_path \in store
               /\ NewCheck.screenshot_path \notin last.before.store
               /\ \A k \in DOMAIN last.before.checks :
                      last.before.checks[k].screenshot_path # NewCheck.screenshot_path

\* an older row holds a screenshot, the most recent one does not, and the new
\* check took one
C38_Witness ==
    /\ LatestRowHadNoScreenshot /\ TookScreenshot
    /\ \E k \in DOMAIN last.before.checks :
           /\ last.before.checks[k].screenshot_path # NoPath
           /\ last.before.checks[k].screenshot_path \in last.before.store
    /\ NewCheck.screenshot_path \in store
    /\ NewCheck.diff_score = None

(***************************************************************************)
(* C39: downtime mails and failure streaks, under SpecStreak.              *)
(***************************************************************************)
\* the checks j..k belong to one failure streak
OneStreak(j, k) == \A i \in j..k : ~checks[i].is_up

\* C39: at most one downtime mail is sent per failure streak, also when the
\* owner changes alert_threshold or notifications_enabled during the streak
C39_OneDownMailPerStreak ==
    \A m1, m2 \in mails :
        (m1.kind = "down" /\ m2.kind = "down" /\ m1.check < m2.check)
            => ~OneStreak(m1.check, m2.check)

(***************************************************************************)
(* C40: the scheduler threads of a process, under SpecReady.               *)
(***************************************************************************)
\* C40: within one process at most one background scheduler thread is started,
\* however many times PagesConfig.ready is invoked, and none is started when
\* the process runs a management command that is not the server
C40_AtMostOneSchedulerThread ==
    /\ threads.run_checks <= 1
    /\ NonServerManagementCommand(cfg.argv) => threads.run_checks = 0

\* no thread is started for a command of _non_server_commands
C40_NoneForListedCommands ==
    (\E c \in NonServerCommands : Cmd(cfg.argv) = Word(c)) => threads.run_checks = 0

\* a thread is started only by a call that saw the flag unset, and sets it
C40_StartedSetsFlag ==
    /\ threads.run_checks > 0 => ctl.run_checks_started
    /\ threads.run_checks <= Cardinality({c \in Callers : threads.callers[c] = "returned"})

====
